---- MODULE Spec2Model ----
(***************************************************************************)
(* Crate registry core of src/src/krate.rs: the publish handler `new`,     *)
(* Crate::find_or_insert, NewCrate::create_or_update, the owner            *)
(* modification handlers, the rights gate, parse_new_headers and the       *)
(* download counter, run by concurrent requests                            *)
(* that each hold one database transaction (READ COMMITTED: every SQL      *)
(* statement is one atomic step that sees the committed rows plus the      *)
(* rows written by its own transaction; a writer waits for an in-flight    *)
(* writer of the same row or the same unique key).                         *)
(***************************************************************************)
EXTENDS Integers, Sequences, FiniteSets, TLC

VARIABLES
    crates,        \* table crates: row versions
    crate_owners,  \* table crate_owners: row versions
    versions,      \* table versions: row versions
    teams,         \* table teams: row versions
    storage,       \* artifact store: set of <<crate name, version>>
    index,         \* package index: number of entries appended per <<name, version>>
    members,       \* users the team's backing group holds (external)
    dependencies,  \* table dependencies: row versions
    version_downloads, \* table version_downloads: row versions
    now,           \* the clock: [day, half]
    config,        \* the deployment's configuration: [mirror]
    follows,       \* table follows: row versions
    crates_keywords,   \* table crates_keywords joined with keywords: row versions
    crates_categories, \* table crates_categories joined with categories: row versions
    pc,            \* per worker: position in its handler
    req,           \* per worker: the request it serves
    loc,           \* per worker: the handler's local variables
    res            \* per worker: outcome of its current request

vars == <<crates, crate_owners, versions, teams, storage, index, members,
          dependencies, version_downloads, now, config, follows,
          crates_keywords, crates_categories, pc, req, loc, res>>

(***************************************************************************)
(* Bounds                                                                  *)
(***************************************************************************)
MaxLogins == 2
\* longest login list of one owner-modification request
MaxDeps == 2
\* longest dependency list of one publish request
MaxDay == 2
\* last day of the clock
MaxDownloads == 3
\* no download is started once a counter has this value
MaxAuthors == 2
\* longest authors list of an upload's metadata

Workers == {"w1", "w2"}
WorkerBefore(q, p) == q = "w1" /\ p = "w2"
NoTx == "none"
Users == {1, 2}
\* the one team; its id equals a user's id, as ids of different tables may
TheTeam == [id |-> 1, login |-> "github:org:team"]

(***************************************************************************)
(* Names.  A name is a sequence of characters; canon_crate_name folds      *)
(* ASCII case and maps '-' to '_'.                                         *)
(***************************************************************************)
Foo_l == <<"f", "o", "o">>
Foo_u == <<"F", "o", "o">>
Std_d == <<"s", "-", "d">>
NameSet == {Foo_l, Foo_u, Std_d}

reserved_crate_names == {<<"s", "_", "d">>}

LowerChar(c) ==
    CASE c = "F" -> "f"
      [] c = "B" -> "b"
      [] c = "K" -> "k"
      [] c = "W" -> "w"
      [] c = "O" -> "o"
      [] c = "S" -> "s"
      [] c = "D" -> "d"
      [] c = "-" -> "_"
      [] OTHER -> c

canon_crate_name(n) == [i \in DOMAIN n |-> LowerChar(n[i])]

\* version numbers the publish requests carry, and one published before
VersNums == {"1.0.0"}
OldVers == "0.9.0"
AllVers == VersNums \cup {OldVers}
\* names the dependency lists are drawn from
DepNames == {Foo_u, Std_d}

(***************************************************************************)
(* Crate metadata.  A license is a sequence of identifiers and "/"         *)
(* separators; a URL is given by what Url::parse makes of it.              *)
(***************************************************************************)
None == [some |-> FALSE]
Some(x) == [some |-> TRUE, val |-> x]

HttpsUrl == [parses |-> TRUE, scheme |-> "https", cannot_be_a_base |-> FALSE]
FtpUrl == [parses |-> TRUE, scheme |-> "ftp", cannot_be_a_base |-> FALSE]
RelativeUrl == [parses |-> FALSE, scheme |-> "", cannot_be_a_base |-> FALSE]

MitMeta ==
    [description |-> None, homepage |-> None, repository |-> None,
     license |-> Some(<<"MIT">>), license_file |-> None]
DualMeta ==
    [description |-> Some(<<"x">>), homepage |-> Some(HttpsUrl), repository |-> Some(HttpsUrl),
     license |-> Some(<<"MIT", "/", "Apache-2.0">>), license_file |-> None]
\* the metadata the requests carry: one valid value, which differs from the
\* stored MitMeta, and the invalid ones
Metas ==
    {DualMeta,
     [MitMeta EXCEPT !.license = Some(<<"NOT-A-LICENSE">>)],
     [MitMeta EXCEPT !.license = Some(<<"MIT", "/", "NOT-A-LICENSE">>)],
     [MitMeta EXCEPT !.license = Some(<<"MIT", "/">>)],
     [MitMeta EXCEPT !.homepage = Some(RelativeUrl)],
     [DualMeta EXCEPT !.repository = Some(FtpUrl)],
     [DualMeta EXCEPT !.license = None, !.license_file = Some("LICENSE"),
                      !.homepage = Some(FtpUrl)]}

\* the license identifiers license_exprs knows
KnownLicenses == {<<"MIT">>, <<"Apache-2.0">>}
validate_license_expr(part) == part \in KnownLicenses

\* str::split("/"): the pieces between the separators
RECURSIVE split(_)
split(s) ==
    IF \A i \in DOMAIN s : s[i] # "/"
    THEN <<s>>
    ELSE LET k == CHOOSE i \in DOMAIN s :
                     s[i] = "/" /\ \A j \in 1..(i - 1) : s[j] # "/" IN
         <<SubSeq(s, 1, k - 1)>> \o split(SubSeq(s, k + 1, Len(s)))

validate_url(url) ==
    \/ ~url.some
    \/ /\ url.val.parses
       /\ url.val.scheme \in {"http", "https"}
       /\ ~url.val.cannot_be_a_base

\* (variant: no license is turned down)
validate_license_never(license) == TRUE

validate_license(license) ==
    license.some =>
        \A i \in DOMAIN split(license.val) : validate_license_expr(split(license.val)[i])

\* the checks that open Crate::find_or_insert and NewCrate::validate
validate(m) ==
    /\ validate_url(m.homepage)
    /\ validate_url(m.repository)
    /\ validate_license(m.license)

\* the columns written: a crate without a license but with a license file
\* is flagged "non-standard"
StoredMeta(m) ==
    [description |-> m.description,
     homepage |-> m.homepage, repository |-> m.repository,
     license |-> IF ~m.license.some /\ m.license_file.some
                 THEN Some(<<"non-standard">>) ELSE m.license]

\* the columns of NewCrate (`meta` stands for the metadata columns)
NewCrateColumns == {"name", "meta", "max_upload_size"}

\* (variant: the changeset has no key to skip)
no_primary_key == {}

\* #[primary_key(name, max_upload_size)] of NewCrate: "this is actually just
\* to skip updating them"
primary_key == {"name", "max_upload_size"}

\* the columns the UPDATE of Crate::find_or_insert sets
find_or_insert_set == {"meta"}

\* UPDATE crates SET <cols> = <the values of self>: the row after the update
SetColumns(r, cols, self) ==
    [f \in DOMAIN r |-> IF f \in cols THEN self[f] ELSE r[f]]

\* the upload sizes a caller of create_or_update may pass
UploadSizes == {None, Some(1)}

\* the metadata of the requests that passed validation, as it is written
AcceptedMetas == {StoredMeta(m) : m \in {x \in Metas : validate(x)}}

(***************************************************************************)
(* Logins                                                                  *)
(***************************************************************************)
gh_login(u) == IF u = 1 THEN "alice" ELSE "bob"
Logins == {gh_login(u) : u \in Users} \cup {TheTeam.login}
ContainsColon(login) == login = TheTeam.login

OwnerKindUser == 0
OwnerKindTeam == 1

(***************************************************************************)
(* Rights levels, ordered None < Publish < Full                            *)
(***************************************************************************)
RightsOrder == <<"None", "Publish", "Full">>
RightsRank(r) == CHOOSE i \in DOMAIN RightsOrder : RightsOrder[i] = r
RightsLess(a, b) == RightsRank(a) < RightsRank(b)

(***************************************************************************)
(* Row versions.  xmin is the transaction that wrote the version (NoTx     *)
(* once committed), xmax the in-flight transaction that replaced it.       *)
(***************************************************************************)
Visible(t, p) == {r \in t : r.xmin \in {NoTx, p} /\ r.xmax # p}
Committed(t) == {r \in t : r.xmin = NoTx}
LockedByOther(r, p) == r.xmax \notin {NoTx, p}
InFlightOther(r, p) == r.xmin \notin {NoTx, p}

\* COMMIT of p: the versions p replaced go, the versions p wrote are committed
CommitTx(t, p) ==
    {IF r.xmin = p THEN [r EXCEPT !.xmin = NoTx] ELSE r : r \in {s \in t : s.xmax # p}}

\* ROLLBACK of p: the versions p wrote go, the versions p replaced are released
RollbackTx(t, p) ==
    {IF r.xmax = p THEN [r EXCEPT !.xmax = NoTx] ELSE r : r \in {s \in t : s.xmin # p}}

\* UPDATE of row r by transaction p, replacing it by row n
UpdateRow(t, r, n, p) ==
    IF r.xmin = p
    THEN (t \ {r}) \cup {[n EXCEPT !.xmin = p, !.xmax = NoTx]}
    ELSE (t \ {r}) \cup {[r EXCEPT !.xmax = p], [n EXCEPT !.xmin = p, !.xmax = NoTx]}

(***************************************************************************)
(* Initial state: an empty registry with its users, no request running.    *)
(* The team's backing group is external and fixed during a run.            *)
(***************************************************************************)
NoCrate == [id |-> 0, name |-> <<>>]
NoOwner == [kind |-> OwnerKindUser, id |-> 0, login |-> ""]
NoReq == [kind |-> "none", user |-> 0, name |-> <<>>, vers |-> "", missing_dep |-> <<>>]
\* the clock at the start of a run
Midnight == [day |-> 1, half |-> "am"]
NoLoc == [krate |-> NoCrate, owners |-> {}, n |-> 0, owner |-> NoOwner,
          version_id |-> <<>>,
          bomb |-> FALSE, entitled |-> FALSE, overlap |-> FALSE]

Init ==
    /\ crates = {}
    /\ crate_owners = {}
    /\ versions = {}
    /\ teams = {}
    /\ storage = {}
    /\ index = [k \in NameSet \X AllVers |-> 0]
    /\ members \in {{1}, {1, 2}}
    /\ dependencies = {}
    /\ version_downloads = {}
    /\ now = Midnight
    /\ config = [mirror |-> "Primary"]
    /\ follows = {}
    /\ crates_keywords = {}
    /\ crates_categories = {}
    /\ pc = [p \in Workers |-> "idle"]
    /\ req = [p \in Workers |-> NoReq]
    /\ loc = [p \in Workers |-> NoLoc]
    /\ res = [p \in Workers |-> "none"]

(***************************************************************************)
(* Helpers shared by the handlers                                          *)
(***************************************************************************)
\* the columns of a returned crate row that the handlers read
CrateOf(r) == [id |-> r.id, name |-> r.name]

\* ids come from a sequence; ids of rows that were rolled back are never
\* seen by anyone, so the next id is taken as one past the ids in the table
NextCrateId == 1 + Cardinality({r.id : r \in crates})

\* where the workers are interchangeable, a request is handed to the first
\* idle one
FirstIdle(p) == \A q \in Workers : pc[q] = "idle" => ~WorkerBefore(q, p)

\* (variant: an error return ends the request like a success, its rows kept)
FailCommitting(p, e) ==
    /\ pc' = [pc EXCEPT ![p] = "commit"]
    /\ res' = [res EXCEPT ![p] = e]
    /\ loc' = [loc EXCEPT ![p] = NoLoc]
    /\ UNCHANGED req

\* an error return of the handler: the request ends with `e` and the
\* handler's locals are dropped; the transaction is rolled back when the
\* response is written
Fail(p, e) ==
    /\ pc' = [pc EXCEPT ![p] = "rollback"]
    /\ res' = [res EXCEPT ![p] = e]
    /\ loc' = [loc EXCEPT ![p] = NoLoc]
    /\ UNCHANGED req

\* (variant: a failed upload or index registration ends like any other error)
FailRollingBack(p, e) ==
    /\ pc' = [pc EXCEPT ![p] = "rollback"]
    /\ res' = [res EXCEPT ![p] = e]
    /\ loc' = [loc EXCEPT ![p] = NoLoc]
    /\ req' = [req EXCEPT ![p] = NoReq]

\* an error return of the publish handler after its database work is done
\* (the upload or the index registration failed): the request ends with `e`,
\* and the rows it wrote are kept when the response is written
FailKeeping(p, e) ==
    /\ pc' = [pc EXCEPT ![p] = "commit"]
    /\ res' = [res EXCEPT ![p] = e]
    /\ loc' = [loc EXCEPT ![p] = NoLoc]
    /\ req' = [req EXCEPT ![p] = NoReq]

\* a request `r` arrives at worker p and is turned down with `e`
Refuse(p, r, e) ==
    /\ pc' = [pc EXCEPT ![p] = "rollback"]
    /\ res' = [res EXCEPT ![p] = e]
    /\ loc' = [loc EXCEPT ![p] = NoLoc]
    /\ req' = [req EXCEPT ![p] = r]

\* a successful return of the handler
Succeed(p) ==
    /\ pc' = [pc EXCEPT ![p] = "commit"]
    /\ res' = [res EXCEPT ![p] = "ok"]
    /\ loc' = [loc EXCEPT ![p] = NoLoc]
    /\ req' = [req EXCEPT ![p] = NoReq]

Goto(p, l) ==
    /\ pc' = [pc EXCEPT ![p] = l]
    /\ UNCHANGED <<res, req>>

\* a request `r` arrives at worker p, whose handler runs up to label l
Begin(p, r, l) ==
    /\ pc' = [pc EXCEPT ![p] = l]
    /\ req' = [req EXCEPT ![p] = r]
    /\ UNCHANGED res

\* an INSERT by p waits while another in-flight transaction holds a version
\* of one of `rows`, the rows that hold the unique key being inserted
InsertWaits(rows, p) ==
    \E r \in rows : InFlightOther(r, p) \/ LockedByOther(r, p)
\* (variant: the table has no unique key)
InsertNeverConflicts(rows) == FALSE

\* the INSERT violates the unique constraint if such a row exists
InsertConflicts(rows) == rows # {}

CrateKey(r) == canon_crate_name(r.name)
OwnerKey(r) == <<r.crate_id, r.owner_id, r.owner_kind>>
VersionKey(r) == <<r.crate_id, r.num>>
TeamKey(r) == r.login
CratesWithKey(k) == {r \in crates : CrateKey(r) = k}
OwnersWithKey(k) == {r \in crate_owners : OwnerKey(r) = k}
VersionsWithKey(k) == {r \in versions : VersionKey(r) = k}
TeamsWithKey(k) == {r \in teams : TeamKey(r) = k}

(***************************************************************************)
(* Crate::owners and the rights of a user against an owner list            *)
(***************************************************************************)
\* (variant: the user query without its deleted = FALSE condition)
OwnerUserRowsWithDeleted(krate, p) ==
    {[kind |-> OwnerKindUser, id |-> r.owner_id, login |-> gh_login(r.owner_id)] :
        r \in {o \in Visible(crate_owners, p) :
                 /\ o.crate_id = krate.id
                 /\ o.owner_kind = OwnerKindUser
                 /\ o.owner_id \in Users}}

\* SELECT ... FROM users INNER JOIN crate_owners ... deleted = FALSE, kind = User
OwnerUserRows(krate, p) ==
    {[kind |-> OwnerKindUser, id |-> r.owner_id, login |-> gh_login(r.owner_id)] :
        r \in {o \in Visible(crate_owners, p) :
                 /\ o.crate_id = krate.id
                 /\ o.deleted = FALSE
                 /\ o.owner_kind = OwnerKindUser
                 /\ o.owner_id \in Users}}

\* SELECT ... FROM teams INNER JOIN crate_owners ... deleted = FALSE, kind = Team
OwnerTeamRows(krate, p) ==
    {[kind |-> OwnerKindTeam, id |-> r.owner_id, login |-> TheTeam.login] :
        r \in {o \in Visible(crate_owners, p) :
                 /\ o.crate_id = krate.id
                 /\ o.deleted = FALSE
                 /\ o.owner_kind = OwnerKindTeam
                 /\ \E t \in Visible(teams, p) : t.id = o.owner_id}}

\* Crate::owners; its two queries are taken as one read
owners(krate, p) == OwnerUserRows(krate, p) \cup OwnerTeamRows(krate, p)

\* team.contains_user: membership in the team's backing group
contains_user(team_id, user) == team_id = TheTeam.id /\ user \in members

rights(os, user) ==
    IF \E o \in os : o.kind = OwnerKindUser /\ o.id = user THEN "Full"
    ELSE IF \E o \in os : o.kind = OwnerKindTeam /\ contains_user(o.id, user)
         THEN "Publish"
         ELSE "None"

\* what the crate_owners table itself says about a user's standing on a
\* crate, as transaction p sees it (observation only, read by the properties)
Standing(user, crate_id, p) ==
    LET live == {r \in Visible(crate_owners, p) : r.crate_id = crate_id /\ ~r.deleted} IN
    IF \E r \in live : r.owner_kind = OwnerKindUser /\ r.owner_id = user THEN "Full"
    ELSE IF user \in members /\ \E r \in live : r.owner_kind = OwnerKindTeam
         THEN "Publish"
         ELSE "None"

(***************************************************************************)
(* PUT /crates/new: the publish handler `new`                              *)
(***************************************************************************)
\* rows the UPDATE / SELECT by canonical name matches
CratesByName(name, p) ==
    {r \in Visible(crates, p) : canon_crate_name(r.name) = canon_crate_name(name)}

\* (variant: the crate is looked up without locking its row)
UpdateNeverWaits(rows, p) == FALSE

\* the UPDATE of find_or_insert locks the rows it matches: it waits while
\* another transaction holds one of them
UpdateWaits(rows, p) == \E r \in rows : LockedByOther(r, p)

\* the request arrives and runs up to the first statement of
\* Crate::find_or_insert: parse_new_headers may turn the upload's metadata
\* down for its missing fields; the metadata is validated, then UPDATE crates
\* SET <metadata> WHERE canon_crate_name(name) = canon_crate_name($7)
\* RETURNING *
StartPublish(p) ==
    /\ pc[p] = "idle"
    /\ \E u \in Users, name \in NameSet, v \in VersNums :
         LET rows == CratesByName(name, p)
             new == [kind |-> "publish", user |-> u, name |-> name, vers |-> v,
                     missing_dep |-> <<>>] IN
         \/ /\ Refuse(p, [NoReq EXCEPT !.kind = "publish"],
                      "missing_or_empty_metadata_fields")
            /\ UNCHANGED crates
         \/ /\ \E m \in Metas : ~validate(m)
            /\ Refuse(p, new, "invalid_metadata")
            /\ UNCHANGED crates
         \/ /\ ~UpdateWaits(rows, p)
            /\ IF rows # {}
               THEN \E m \in AcceptedMetas :
                    LET r == CHOOSE x \in rows : TRUE
                        self == [name |-> name, meta |-> m, max_upload_size |-> None]
                        n == SetColumns(r, find_or_insert_set, self) IN
                      /\ crates' = UpdateRow(crates, r, n, p)
                      /\ loc' = [loc EXCEPT ![p].krate = CrateOf(n)]
                      /\ Begin(p, new, "gate")
               ELSE /\ UNCHANGED <<crates, loc>>
                    /\ Begin(p, new, "find_or_insert_insert")
    /\ UNCHANGED <<crate_owners, versions, teams, storage, index, members, config, follows,
                   crates_keywords, crates_categories,
                 dependencies, version_downloads, now>>

\* (variant: the reserved-name query finds nothing)
NeverReserved(name) == FALSE

\* SELECT 1 FROM reserved_crate_names WHERE canon_crate_name(name) = canon_crate_name($1)
ReservedName(name) ==
    \E r \in reserved_crate_names : canon_crate_name(r) = canon_crate_name(name)

\* Crate::find_or_insert, the rest: the reserved-name check, INSERT INTO
\* crates and INSERT INTO crate_owners for the uploader
FindOrInsertInsert(p) ==
    /\ pc[p] = "find_or_insert_insert"
    /\ IF ReservedName(req[p].name)
       THEN /\ Fail(p, "reserved_name")
            /\ UNCHANGED <<crates, crate_owners>>
       ELSE /\ ~InsertWaits(CratesWithKey(canon_crate_name(req[p].name)), p)
            /\ IF InsertConflicts(CratesWithKey(canon_crate_name(req[p].name)))
               THEN /\ Fail(p, "crates_unique_violation")
                    /\ UNCHANGED <<crates, crate_owners>>
               ELSE \E m \in AcceptedMetas :
                    LET ret == [id |-> NextCrateId, name |-> req[p].name] IN
                      /\ crates' = crates \cup
                            {[id |-> ret.id, name |-> ret.name, meta |-> m,
                              max_upload_size |-> None, downloads |-> 0,
                              xmin |-> p, xmax |-> NoTx]}
                      /\ crate_owners' = crate_owners \cup
                            {[crate_id |-> ret.id, owner_id |-> req[p].user,
                              owner_kind |-> OwnerKindUser,
                              deleted |-> FALSE, xmin |-> p, xmax |-> NoTx]}
                      /\ loc' = [loc EXCEPT ![p].krate = ret]
                      /\ Goto(p, "gate")
    /\ UNCHANGED <<versions, teams, storage, index, members, config, follows,
                   crates_keywords, crates_categories,
                 dependencies, version_downloads, now>>

\* (variant: the rights comparison never turns a request down)
NeverDenied(r) == FALSE

\* rights(..) < Rights::Publish
PublishDenied(r) == RightsLess(r, "Publish")

\* (variant: the names are compared canonically)
NameDiffersCanonically(krate, name) ==
    canon_crate_name(krate.name) # canon_crate_name(name)

\* krate.name != name
NameDiffers(krate, name) == krate.name # name

\* krate.owners, then the gate of `new`: rights, name and upload size
PublishGate(p) ==
    /\ pc[p] = "gate"
    /\ LET r == rights(owners(loc[p].krate, p), req[p].user) IN
         IF PublishDenied(r) THEN Fail(p, "not_authorized")
         ELSE IF NameDiffers(loc[p].krate, req[p].name) THEN Fail(p, "previously_named")
         ELSE \/ Fail(p, "max_upload_size")
              \/ /\ loc' = [loc EXCEPT ![p].entitled =
                       ~RightsLess(Standing(req[p].user, loc[p].krate.id, p), "Publish")]
                 /\ Goto(p, "add_version")
    /\ UNCHANGED <<crates, crate_owners, versions, teams, storage, index, members, config, follows,
                   crates_keywords, crates_categories,
                 dependencies, version_downloads, now>>

\* (variant: add_version inserts without looking the number up)
VersionNeverFound(krate, num, p) == FALSE

\* Version::find_by_num(conn, self.id, ver)?.is_some()
VersionFound(krate, num, p) ==
    \E v \in Visible(versions, p) : v.crate_id = krate.id /\ v.num = num

\* Crate::add_version: the lookup of the version number
AddVersion(p) ==
    /\ pc[p] = "add_version"
    /\ IF VersionFound(loc[p].krate, req[p].vers, p)
       THEN Fail(p, "already_uploaded")
       ELSE Goto(p, "version_insert") /\ UNCHANGED loc
    /\ UNCHANGED <<crates, crate_owners, versions, teams, storage, index, members, config, follows,
                   crates_keywords, crates_categories,
                 dependencies, version_downloads, now>>

\* Crate::add_version: Version::insert
VersionInsert(p) ==
    /\ pc[p] = "version_insert"
    /\ ~InsertWaits(VersionsWithKey(<<loc[p].krate.id, req[p].vers>>), p)
    /\ IF InsertConflicts(VersionsWithKey(<<loc[p].krate.id, req[p].vers>>))
       THEN /\ Fail(p, "versions_unique_violation")
            /\ UNCHANGED versions
       ELSE /\ versions' = versions \cup
                 {[crate_id |-> loc[p].krate.id, num |-> req[p].vers,
                   yanked |-> FALSE, xmin |-> p, xmax |-> NoTx]}
            /\ Goto(p, "add_dependency")
            /\ UNCHANGED loc
    /\ UNCHANGED <<crates, crate_owners, teams, storage, index, members, config, follows,
                   crates_keywords, crates_categories,
                 dependencies, version_downloads, now>>

\* the crates a dependency name resolves to
DependencyTargets(name, p) == CratesByName(name, p)

\* (variant: the error of add_dependency is dropped and the loop goes on)
DependencyErrorDropped(found) == FALSE

\* version.add_dependency(req.tx()?, dep)?: the error is returned
DependencyErrorReturned(found) == ~found

\* the dependency rows the request has written for its version
OwnDependencies(p) == {r \in dependencies : r.xmin = p}

\* the loop of `new` over new_crate.deps: each dependency is resolved to its
\* crate and gets a row.  The list of the request names a crate once, is
\* read one entry at a time and ends after at most MaxDeps entries; the
\* request keeps the name that did not resolve
AddDependency(p) ==
    /\ pc[p] = "add_dependency"
    /\ \/ /\ Goto(p, "update_crate")
          /\ UNCHANGED <<loc, dependencies>>
       \/ /\ Cardinality(OwnDependencies(p)) < MaxDeps
          /\ \E d \in DepNames :
               LET rows == DependencyTargets(d, p)
                   found == rows # {} IN
                 /\ \A r \in rows : \A o \in OwnDependencies(p) : o.dep_id # r.id
                 /\ IF DependencyErrorReturned(found)
                    THEN /\ Refuse(p, [req[p] EXCEPT !.missing_dep = d],
                                   "dependency_not_found")
                         /\ UNCHANGED dependencies
                    ELSE /\ dependencies' = dependencies \cup
                              {[crate_id |-> loc[p].krate.id, num |-> req[p].vers,
                                dep_id |-> r.id, xmin |-> p, xmax |-> NoTx] : r \in rows}
                         /\ req' = [req EXCEPT ![p].missing_dep =
                                       IF found THEN @ ELSE d]
                         /\ UNCHANGED <<pc, res, loc>>
    /\ UNCHANGED <<crates, crate_owners, versions, teams, storage, index, members, config, follows,
                   crates_keywords, crates_categories,
                   version_downloads, now>>

\* the keywords and the categories every upload names
Kw == <<"k", "w">>
Cat == <<"c", "a", "t">>
Keywords == {Kw}
Categories == {Cat}

\* Keyword::update_crate_old / Category::update_crate_old: the rows of the
\* crate in table t become those of `vals` (column col); the rows that are
\* named no more are deleted, the missing ones inserted
UpdateCrateOld(t, crate_id, col, vals, p) ==
    LET old == {r \in Visible(t, p) : r.crate_id = crate_id}
        gone == {r \in old : r[col] \notin vals}
        kept == {r[col] : r \in old \ gone} IN
      (t \ gone)
        \cup {[r EXCEPT !.xmax = p] : r \in {x \in gone : x.xmin # p}}
        \cup {[crate_id |-> crate_id, xmin |-> p, xmax |-> NoTx] @@ (col :> v) :
                v \in vals \ kept}

\* (variant: an error of the updates is dropped)
UpdateErrorDropped(failed) == FALSE

\* Keyword::update_crate_old(..)?, Category::update_crate_old(..)?,
\* Badge::update_crate(..)?, krate.max_version(..)?: an error is returned
UpdateErrorReturned(failed) == failed

\* the keywords, categories and badges of the crate are updated and its
\* max_version is read; any of the statements may fail
UpdateCrate(p) ==
    /\ pc[p] = "update_crate"
    /\ \E failed \in BOOLEAN :
         IF UpdateErrorReturned(failed)
         THEN /\ Fail(p, "update_failed")
              /\ UNCHANGED <<crates_keywords, crates_categories>>
         ELSE /\ IF failed
                 THEN UNCHANGED <<crates_keywords, crates_categories>>
                 ELSE /\ \A r \in crates_keywords \cup crates_categories :
                           r.crate_id = loc[p].krate.id
                              => ~LockedByOther(r, p) /\ ~InFlightOther(r, p)
                      /\ crates_keywords' =
                            UpdateCrateOld(crates_keywords, loc[p].krate.id,
                                           "keyword", Keywords, p)
                      /\ crates_categories' =
                            UpdateCrateOld(crates_categories, loc[p].krate.id,
                                           "slug", Categories, p)
              /\ Goto(p, "upload")
              /\ UNCHANGED loc
    /\ UNCHANGED <<crates, crate_owners, versions, teams, storage, index, members,
                   dependencies, version_downloads, now, config, follows>>

\* app.config.uploader.upload: stores the artifact and arms the bomb, or fails
Upload(p) ==
    /\ pc[p] = "upload"
    /\ \/ /\ storage' = storage \cup {<<loc[p].krate.name, req[p].vers>>}
          /\ loc' = [loc EXCEPT ![p].bomb = TRUE]
          /\ Goto(p, "add_crate")
       \/ /\ FailKeeping(p, "upload_failed")
          /\ UNCHANGED storage
    /\ UNCHANGED <<crates, crate_owners, versions, teams, index, members, config, follows,
                   crates_keywords, crates_categories,
                 dependencies, version_downloads, now>>

\* the bomb goes out of scope: an armed bomb deletes the artifact it guards
DropBomb(st, armed, key) == IF armed THEN st \ {key} ELSE st

\* (variant: the bomb is disarmed before the index is written)
BombDisarmedEarly(bomb) == FALSE

\* git::add_crate(..)? returns its error while the bomb is as upload left it
BombOnIndexError(bomb) == bomb

\* (variant: the bomb is left as it is when the index was written)
BombLeftArmed(bomb) == bomb

\* bomb.path = None
BombOnSuccess(bomb) == FALSE

\* git::add_crate, then bomb.path = None and the response; on an error of
\* git::add_crate the handler returns it and the bomb is dropped
AddCrate(p) ==
    /\ pc[p] = "add_crate"
    /\ LET key == <<loc[p].krate.name, req[p].vers>> IN
       \/ /\ index' = [index EXCEPT ![<<req[p].name, req[p].vers>>] = @ + 1]
          /\ storage' = DropBomb(storage, BombOnSuccess(loc[p].bomb), key)
          /\ Succeed(p)
       \/ /\ storage' = DropBomb(storage, BombOnIndexError(loc[p].bomb), key)
          /\ FailKeeping(p, "index_failed")
          /\ UNCHANGED index
    /\ UNCHANGED <<crates, crate_owners, versions, teams, members, config, follows,
                   crates_keywords, crates_categories,
                 dependencies, version_downloads, now>>

\* the request is abandoned while its handler runs: the handler's locals are
\* dropped, the bomb among them, and the transaction is rolled back
Abort(p) ==
    /\ pc[p] \notin {"idle", "commit", "rollback"}
    /\ req[p].kind = "publish"
    /\ storage' = DropBomb(storage, loc[p].bomb, <<loc[p].krate.name, req[p].vers>>)
    /\ crates' = RollbackTx(crates, p)
    /\ crate_owners' = RollbackTx(crate_owners, p)
    /\ versions' = RollbackTx(versions, p)
    /\ dependencies' = RollbackTx(dependencies, p)
    /\ pc' = [pc EXCEPT ![p] = "idle"]
    /\ res' = [res EXCEPT ![p] = "none"]
    /\ req' = [req EXCEPT ![p] = NoReq]
    /\ loc' = [loc EXCEPT ![p] = NoLoc]
    /\ crates_keywords' = RollbackTx(crates_keywords, p)
    /\ crates_categories' = RollbackTx(crates_categories, p)
    /\ UNCHANGED <<teams, index, members, config, follows, version_downloads, now>>

\* the response is written and the transaction ends: the rows the request
\* wrote are committed after a success and after a failure of the upload or
\* of the index registration, and rolled back after any other error
Finish(p) ==
    /\ pc[p] \in {"commit", "rollback"}
    /\ IF pc[p] = "commit"
       THEN /\ crates' = CommitTx(crates, p)
            /\ crate_owners' = CommitTx(crate_owners, p)
            /\ versions' = CommitTx(versions, p)
            /\ teams' = CommitTx(teams, p)
            /\ dependencies' = CommitTx(dependencies, p)
            /\ version_downloads' = CommitTx(version_downloads, p)
            /\ follows' = CommitTx(follows, p)
            /\ crates_keywords' = CommitTx(crates_keywords, p)
            /\ crates_categories' = CommitTx(crates_categories, p)
       ELSE /\ crates' = RollbackTx(crates, p)
            /\ crate_owners' = RollbackTx(crate_owners, p)
            /\ versions' = RollbackTx(versions, p)
            /\ teams' = RollbackTx(teams, p)
            /\ dependencies' = RollbackTx(dependencies, p)
            /\ version_downloads' = RollbackTx(version_downloads, p)
            /\ follows' = RollbackTx(follows, p)
            /\ crates_keywords' = RollbackTx(crates_keywords, p)
            /\ crates_categories' = RollbackTx(crates_categories, p)
    /\ pc' = [pc EXCEPT ![p] = "idle"]
    /\ res' = [res EXCEPT ![p] = "none"]
    /\ req' = [req EXCEPT ![p] = NoReq]
    /\ loc' = [loc EXCEPT ![p] = NoLoc]
    /\ UNCHANGED <<storage, index, members, config, now>>

PublishNext ==
    \E p \in Workers :
        \/ FirstIdle(p) /\ StartPublish(p)
        \/ FindOrInsertInsert(p)
        \/ PublishGate(p)
        \/ AddVersion(p)
        \/ VersionInsert(p)
        \/ AddDependency(p)
        \/ UpdateCrate(p)
        \/ Upload(p)
        \/ AddCrate(p)
        \/ Abort(p)
        \/ Finish(p)

SpecPublish == Init /\ [][PublishNext]_vars

(***************************************************************************)
(* NewCrate::create_or_update, called concurrently.  The metadata of the   *)
(* call is taken from Metas; validate turns some metadata down.            *)
(***************************************************************************)
\* (variant: the owner row is added whether or not the INSERT returned a row)
OwnerRowAlways(maybe_inserted, user_id, p) ==
    {[crate_id |-> maybe_inserted.id, owner_id |-> user_id,
      owner_kind |-> OwnerKindUser, deleted |-> FALSE,
      xmin |-> p, xmax |-> NoTx]}

\* the owner row save_new_crate adds: one for the uploader if the INSERT
\* returned a row, none otherwise
NewOwnerRows(maybe_inserted, user_id, p) ==
    IF maybe_inserted # NoCrate
    THEN {[crate_id |-> maybe_inserted.id, owner_id |-> user_id,
           owner_kind |-> OwnerKindUser, deleted |-> FALSE,
           xmin |-> p, xmax |-> NoTx]}
    ELSE {}

\* the call arrives: validate and ensure_name_not_reserved, which run before
\* the transaction opens
StartCreateOrUpdate(p) ==
    /\ pc[p] = "idle"
    /\ \E u \in Users, name \in NameSet :
         LET new == [kind |-> "create_or_update", user |-> u, name |-> name, vers |-> ""] IN
           \/ /\ \E m \in Metas : ~validate(m)
              /\ Refuse(p, new, "invalid_metadata")
           \/ IF ReservedName(name)
              THEN Refuse(p, new, "reserved_name")
              ELSE /\ loc' = [loc EXCEPT ![p].overlap =
                         \E q \in Workers \ {p} :
                            /\ req[q].kind = "create_or_update"
                            /\ pc[q] \in {"save_new_crate", "create_or_update_update", "commit"}
                            /\ canon_crate_name(req[q].name) = canon_crate_name(name)
                            /\ req[q].user # u]
                   /\ Begin(p, new, "save_new_crate")
    /\ UNCHANGED <<crates, crate_owners, versions, teams, storage, index, members, config, follows,
                   crates_keywords, crates_categories,
                 dependencies, version_downloads, now>>

\* save_new_crate: INSERT INTO crates ... ON CONFLICT DO NOTHING RETURNING *,
\* and the owner row if a crate row came back
SaveNewCrate(p) ==
    /\ pc[p] = "save_new_crate"
    /\ ~InsertWaits(CratesWithKey(canon_crate_name(req[p].name)), p)
    /\ IF InsertConflicts(CratesWithKey(canon_crate_name(req[p].name)))
       THEN /\ crate_owners' = crate_owners \cup NewOwnerRows(NoCrate, req[p].user, p)
            /\ Goto(p, "create_or_update_update")
            /\ UNCHANGED <<crates, loc>>
       ELSE \E m \in AcceptedMetas, size \in UploadSizes :
            LET maybe_inserted == [id |-> NextCrateId, name |-> req[p].name] IN
              /\ crates' = crates \cup
                    {[id |-> maybe_inserted.id, name |-> maybe_inserted.name,
                      meta |-> m, max_upload_size |-> size, downloads |-> 0,
                      xmin |-> p, xmax |-> NoTx]}
              /\ crate_owners' = crate_owners \cup
                    NewOwnerRows(maybe_inserted, req[p].user, p)
              /\ loc' = [loc EXCEPT ![p].krate = maybe_inserted]
              /\ pc' = [pc EXCEPT ![p] = "commit"]
              /\ res' = [res EXCEPT ![p] = "created"]
              /\ UNCHANGED req
    /\ UNCHANGED <<versions, teams, storage, index, members, config, follows,
                   crates_keywords, crates_categories,
                 dependencies, version_downloads, now>>

\* update(target).set(&self).returning(ALL_COLUMNS).get_result(conn)
CreateOrUpdateUpdate(p) ==
    /\ pc[p] = "create_or_update_update"
    /\ LET rows == CratesByName(req[p].name, p) IN
         /\ \A r \in rows : ~LockedByOther(r, p)
         /\ IF rows = {}
            THEN /\ Fail(p, "not_found")
                 /\ UNCHANGED crates
            ELSE \E m \in AcceptedMetas, size \in UploadSizes :
                 LET r == CHOOSE x \in rows : TRUE
                     self == [name |-> req[p].name, meta |-> m, max_upload_size |-> size]
                     n == SetColumns(r, NewCrateColumns \ primary_key, self) IN
                   /\ crates' = UpdateRow(crates, r, n, p)
                   /\ loc' = [loc EXCEPT ![p].krate = CrateOf(n)]
                   /\ pc' = [pc EXCEPT ![p] = "commit"]
                   /\ res' = [res EXCEPT ![p] = "updated"]
                   /\ UNCHANGED req
    /\ UNCHANGED <<crate_owners, versions, teams, storage, index, members, config, follows,
                   crates_keywords, crates_categories,
                 dependencies, version_downloads, now>>

CreateOrUpdateNext ==
    \E p \in Workers :
        \/ FirstIdle(p) /\ StartCreateOrUpdate(p)
        \/ SaveNewCrate(p)
        \/ CreateOrUpdateUpdate(p)
        \/ Finish(p)

SpecCreateOrUpdate == Init /\ [][CreateOrUpdateNext]_vars

\* publish requests and calls of create_or_update on one registry
SpecCrateRows == Init /\ [][PublishNext \/ CreateOrUpdateNext]_vars

(***************************************************************************)
(* PUT and DELETE /crates/:crate_id/owners: modify_owners                  *)
(***************************************************************************)
\* (variant: the Publish arm falls through like Full)
ModifyAllowedForPublish(r) == r \in {"Full", "Publish"}

\* (variant: every arm falls through)
ModifyAlwaysAllowed(r) == TRUE

\* match rights(..) { Full => {}, Publish => Err, None => Err }
ModifyAllowed(r) == r = "Full"

\* the loop over the logins of the request body: after n logins the list
\* ends, or (while it is shorter than MaxLogins) holds another login
LoopNext(p, n) ==
    \/ /\ Succeed(p)
    \/ /\ n < MaxLogins
       /\ loc' = [loc EXCEPT ![p].n = n, ![p].owner = NoOwner]
       /\ Goto(p, IF req[p].kind = "add_owners" THEN "add" ELSE "remove")

\* the request arrives; user_and_crate (Crate::find_by_name of the crate_id
\* the URL names), krate.owners and the gate of modify_owners
StartModifyOwners(p) ==
    /\ pc[p] = "idle"
    /\ \E u \in Users, a \in {"add_owners", "remove_owners"}, crate_name \in NameSet :
         LET rows == CratesByName(crate_name, p)
             krate == CrateOf(CHOOSE r \in rows : TRUE)
             os == owners(krate, p)
             r == rights(os, u)
             new == [NoReq EXCEPT !.kind = a, !.user = u] IN
            IF rows = {} THEN Refuse(p, new, "not_found")
            ELSE IF ModifyAllowed(r)
            THEN \/ /\ Succeed(p)
                 \/ /\ loc' = [loc EXCEPT ![p] =
                          [NoLoc EXCEPT !.krate = krate,
                                        !.owners = IF a = "add_owners" THEN os ELSE {},
                                        !.entitled = Standing(u, krate.id, p) = "Full"]]
                    /\ Begin(p, new, IF a = "add_owners" THEN "add" ELSE "remove")
            ELSE IF r = "Publish" THEN Refuse(p, new, "team_members_cannot_modify")
                 ELSE Refuse(p, new, "only_owners_can_modify")
    /\ UNCHANGED <<crates, crate_owners, versions, teams, storage, index, members, config, follows,
                   crates_keywords, crates_categories,
                 dependencies, version_downloads, now>>

\* Owner::find_by_login: a user by gh_login, a team by login
find_by_login(login, p) ==
    IF \E u \in Users : gh_login(u) = login
    THEN [kind |-> OwnerKindUser, login |-> login,
          id |-> CHOOSE u \in Users : gh_login(u) = login]
    ELSE IF \E t \in Visible(teams, p) : t.login = login
         THEN [kind |-> OwnerKindTeam, id |-> TheTeam.id, login |-> login]
         ELSE NoOwner

\* Team::create: the requester must belong to the team's backing group; the
\* team row is inserted unless it exists by now
TeamCreateAllowed(user) == contains_user(TheTeam.id, user)
TeamCreate(login, p) ==
    IF InsertConflicts(TeamsWithKey(login))
    THEN teams
    ELSE teams \cup {[id |-> TheTeam.id, login |-> login, xmin |-> p, xmax |-> NoTx]}

\* owners.iter().any(|owner| owner.login() == *login)
AlreadyOwner(os, login) == \E o \in os : o.login = login

\* (variant: the membership check of owner_add is skipped)
TeamAddAlwaysAllowed(team, user) == TRUE

\* team.contains_user(app, req_user) for a login that resolves to a team
TeamAddAllowed(team, user) == contains_user(team.id, user)

\* add branch of the loop for the next login: the "already an owner" check
\* against the owner list read at the gate, then the start of
\* Crate::owner_add, which resolves the login to an owner (creating the
\* team when it is unknown)
OwnerAddResolve(p) ==
    /\ pc[p] = "add"
    /\ \E login \in Logins :
       IF AlreadyOwner(loc[p].owners, login)
       THEN /\ Fail(p, "already_an_owner")
            /\ UNCHANGED teams
       ELSE LET o == find_by_login(login, p) IN
            IF o # NoOwner /\ o.kind = OwnerKindUser
            THEN /\ loc' = [loc EXCEPT ![p].owner = o]
                 /\ Goto(p, "owner_add_update")
                 /\ UNCHANGED teams
            ELSE IF o # NoOwner
            THEN IF TeamAddAllowed(o, req[p].user)
                 THEN /\ loc' = [loc EXCEPT ![p].owner = o]
                      /\ Goto(p, "owner_add_update")
                      /\ UNCHANGED teams
                 ELSE /\ Fail(p, "only_members_can_add_team")
                      /\ UNCHANGED teams
            ELSE IF ContainsColon(login)
            THEN /\ ~InsertWaits(TeamsWithKey(login), p)
                 /\ IF TeamCreateAllowed(req[p].user)
                    THEN /\ teams' = TeamCreate(login, p)
                         /\ loc' = [loc EXCEPT ![p].owner =
                                [kind |-> OwnerKindTeam, id |-> TheTeam.id, login |-> login]]
                         /\ Goto(p, "owner_add_update")
                    ELSE /\ Fail(p, "team_create_denied")
                         /\ UNCHANGED teams
            ELSE /\ Fail(p, "login_not_found")
                 /\ UNCHANGED teams
    /\ UNCHANGED <<crates, crate_owners, versions, storage, index, members, config, follows,
                   crates_keywords, crates_categories,
                 dependencies, version_downloads, now>>

\* rows the UPDATEs of owner_add and owner_remove match
OwnerRows(krate, owner, p) ==
    {r \in Visible(crate_owners, p) :
        r.crate_id = krate.id /\ r.owner_id = owner.id /\ r.owner_kind = owner.kind}

\* (variant: removal is a DELETE of the matched rows)
HardDelete(t, rows, d, p) ==
    IF d
    THEN (t \ rows) \cup {[r EXCEPT !.xmax = p] : r \in {x \in rows : x.xmin # p}}
    ELSE (t \ rows)
           \cup {[r EXCEPT !.xmax = p] : r \in {x \in rows : x.xmin # p}}
           \cup {[r EXCEPT !.deleted = d, !.xmin = p, !.xmax = NoTx] : r \in rows}

\* the effect of UPDATE crate_owners SET deleted = d on the matched rows
SetDeleted(t, rows, d, p) ==
    (t \ rows)
      \cup {[r EXCEPT !.xmax = p] : r \in {x \in rows : x.xmin # p}}
      \cup {[r EXCEPT !.deleted = d, !.xmin = p, !.xmax = NoTx] : r \in rows}

\* Crate::owner_add: UPDATE crate_owners SET deleted = FALSE ...;
\* assert!(amt <= 1); the INSERT follows if amt == 0
OwnerAddUpdate(p) ==
    /\ pc[p] = "owner_add_update"
    /\ LET rows == OwnerRows(loc[p].krate, loc[p].owner, p) IN
         /\ \A r \in rows : ~LockedByOther(r, p)
         /\ crate_owners' = SetDeleted(crate_owners, rows, FALSE, p)
         /\ IF Cardinality(rows) > 1
            THEN Fail(p, "panic_amt")
            ELSE IF rows = {}
                 THEN Goto(p, "owner_add_insert") /\ UNCHANGED loc
                 ELSE LoopNext(p, loc[p].n + 1)
    /\ UNCHANGED <<crates, versions, teams, storage, index, members, config, follows,
                   crates_keywords, crates_categories,
                 dependencies, version_downloads, now>>

\* Crate::owner_add: INSERT INTO crate_owners
OwnerAddInsert(p) ==
    /\ pc[p] = "owner_add_insert"
    /\ LET k == <<loc[p].krate.id, loc[p].owner.id, loc[p].owner.kind>> IN
         /\ ~InsertWaits(OwnersWithKey(k), p)
         /\ IF InsertConflicts(OwnersWithKey(k))
            THEN /\ Fail(p, "crate_owners_unique_violation")
                 /\ UNCHANGED crate_owners
            ELSE /\ crate_owners' = crate_owners \cup
                      {[crate_id |-> k[1], owner_id |-> k[2], owner_kind |-> k[3],
                        deleted |-> FALSE, xmin |-> p, xmax |-> NoTx]}
                 /\ LoopNext(p, loc[p].n + 1)
    /\ UNCHANGED <<crates, versions, teams, storage, index, members, config, follows,
                   crates_keywords, crates_categories,
                 dependencies, version_downloads, now>>

\* *login == user.gh_login
RemovesSelf(login, user) == login = gh_login(user)

\* remove branch of the loop for the next login: the self-removal check,
\* then Crate::owner_remove: Owner::find_by_login and
\* UPDATE crate_owners SET deleted = TRUE ...
OwnerRemove(p) ==
    /\ pc[p] = "remove"
    /\ \E login \in Logins :
       IF RemovesSelf(login, req[p].user)
       THEN /\ Fail(p, "cannot_remove_yourself")
            /\ UNCHANGED crate_owners
       ELSE LET o == find_by_login(login, p) IN
            IF o = NoOwner
            THEN /\ Fail(p, "owner_not_found")
                 /\ UNCHANGED crate_owners
            ELSE LET rows == OwnerRows(loc[p].krate, o, p) IN
                   /\ \A r \in rows : ~LockedByOther(r, p)
                   /\ crate_owners' = SetDeleted(crate_owners, rows, TRUE, p)
                   /\ LoopNext(p, loc[p].n + 1)
    /\ UNCHANGED <<crates, versions, teams, storage, index, members, config, follows,
                   crates_keywords, crates_categories,
                 dependencies, version_downloads, now>>

Next ==
    \E p \in Workers :
        \/ FirstIdle(p) /\ StartPublish(p)
        \/ FindOrInsertInsert(p)
        \/ PublishGate(p)
        \/ AddVersion(p)
        \/ VersionInsert(p)
        \/ AddDependency(p)
        \/ UpdateCrate(p)
        \/ Upload(p)
        \/ AddCrate(p)
        \/ Abort(p)
        \/ FirstIdle(p) /\ StartModifyOwners(p)
        \/ OwnerAddResolve(p)
        \/ OwnerAddUpdate(p)
        \/ OwnerAddInsert(p)
        \/ OwnerRemove(p)
        \/ Finish(p)

Spec == Init /\ [][Next]_vars

(***************************************************************************)
(* The registry after user 1 has published foo 0.9.0, and the handlers     *)
(* running from it.                                                        *)
(***************************************************************************)
OwnedRegistry ==
    /\ crates = {[id |-> 1, name |-> Foo_l, meta |-> StoredMeta(MitMeta),
                  max_upload_size |-> None, downloads |-> 0,
                  xmin |-> NoTx, xmax |-> NoTx]}
    /\ crate_owners = {[crate_id |-> 1, owner_id |-> 1, owner_kind |-> OwnerKindUser,
                        deleted |-> FALSE, xmin |-> NoTx, xmax |-> NoTx]}
    /\ versions = {[crate_id |-> 1, num |-> OldVers, yanked |-> FALSE,
                    xmin |-> NoTx, xmax |-> NoTx]}
    /\ teams = {}
    /\ storage = {<<Foo_l, OldVers>>}
    /\ index = [k \in NameSet \X AllVers |-> IF k = <<Foo_l, OldVers>> THEN 1 ELSE 0]
    /\ members \in {{1}, {1, 2}}
    /\ dependencies = {}
    /\ version_downloads = {}
    /\ now = Midnight
    /\ follows = {}
    /\ crates_keywords = {[crate_id |-> 1, xmin |-> NoTx, xmax |-> NoTx] @@ ("keyword" :> k) :
                            k \in Keywords}
    /\ crates_categories = {[crate_id |-> 1, xmin |-> NoTx, xmax |-> NoTx] @@ ("slug" :> c) :
                              c \in Categories}
    /\ pc = [p \in Workers |-> "idle"]
    /\ req = [p \in Workers |-> NoReq]
    /\ loc = [p \in Workers |-> NoLoc]
    /\ res = [p \in Workers |-> "none"]

InitOwned == OwnedRegistry /\ config = [mirror |-> "Primary"]

\* the values of Replica
Replicas == {"Primary", "ReadOnlyMirror"}

\* the same registry served by either kind of deployment
InitDeployed == OwnedRegistry /\ config \in [mirror : Replicas]

OwnersNext ==
    \E p \in Workers :
        \/ FirstIdle(p) /\ StartModifyOwners(p)
        \/ OwnerAddResolve(p)
        \/ OwnerAddUpdate(p)
        \/ OwnerAddInsert(p)
        \/ OwnerRemove(p)
        \/ Finish(p)

SpecOwners == InitOwned /\ [][OwnersNext]_vars

\* all handlers, from the registry that holds foo
SpecOwned == InitOwned /\ [][Next]_vars

\* publish requests to the registry that holds foo
SpecPublishOwned == InitOwned /\ [][PublishNext]_vars

(***************************************************************************)
(* The download handler and increment_download_counts.  A version is       *)
(* identified by its crate and number; the clock moves in half days.       *)
(***************************************************************************)
\* SQL date(): the calendar day of a timestamp
date(ts) == ts.day

\* the clock moves on
Tick ==
    /\ now' = IF now.half = "am" THEN [now EXCEPT !.half = "pm"]
              ELSE [day |-> now.day + 1, half |-> "am"]
    /\ now'.day <= MaxDay
    /\ UNCHANGED <<crates, crate_owners, versions, teams, storage, index, members, config, follows,
                   crates_keywords, crates_categories,
                   dependencies, version_downloads, pc, req, loc, res>>

\* SELECT versions.id FROM crates INNER JOIN versions ON crates.id = versions.crate_id
\* WHERE canon_crate_name(crates.name) = canon_crate_name($1) AND versions.num = $2
VersionIds(name, num, p) ==
    {<<v.crate_id, v.num>> : v \in
        {x \in Visible(versions, p) :
            /\ x.num = num
            /\ \E c \in CratesByName(name, p) : c.id = x.crate_id}}

\* (variant: no deployment ignores the failure)
FailureNeverIgnored(mirror) == FALSE

\* if req.app().config.mirror == Replica::ReadOnlyMirror { let _ = .. } else { ..? }
FailureIgnored(mirror) == mirror = "ReadOnlyMirror"

\* the request arrives; increment_download_counts looks the version up.  Its
\* failure ends the request unless the deployment ignores it
StartDownload(p) ==
    /\ pc[p] = "idle"
    /\ \A r \in version_downloads : r.downloads < MaxDownloads
    /\ \E name \in NameSet, v \in AllVers :
         LET new == [kind |-> "download", user |-> 0, name |-> name, vers |-> v,
                     missing_dep |-> <<>>]
             ids == VersionIds(name, v, p) IN
           IF ids = {}
           THEN IF FailureIgnored(config.mirror)
                THEN Begin(p, new, "redirect") /\ UNCHANGED loc
                ELSE Refuse(p, new, "crate_or_version_not_found")
           ELSE /\ loc' = [loc EXCEPT ![p].version_id = CHOOSE i \in ids : TRUE]
                /\ Begin(p, new, "update_downloads")
    /\ UNCHANGED <<crates, crate_owners, versions, teams, storage, index, members, config, follows,
                   crates_keywords, crates_categories,
                   dependencies, version_downloads, now>>

\* the rows of a version for the day of `ts`
DownloadRows(version_id, ts, p) ==
    {r \in Visible(version_downloads, p) :
        r.version_id = version_id /\ date(ts) = date(r.date)}

\* (variant: the INSERT follows whatever the UPDATE matched)
InsertAlways(amt) == TRUE

\* if amt == 0
InsertNeeded(amt) == amt = 0

\* UPDATE version_downloads SET downloads = downloads + 1
\* WHERE version_id = $1 AND date($2) = date(date), with $2 = ::now()
UpdateDownloads(p) ==
    /\ pc[p] = "update_downloads"
    /\ LET rows == DownloadRows(loc[p].version_id, now, p)
           amt == Cardinality(rows) IN
         /\ \A r \in rows : ~LockedByOther(r, p)
         /\ version_downloads' =
               (version_downloads \ rows)
                  \cup {[r EXCEPT !.xmax = p] : r \in {x \in rows : x.xmin # p}}
                  \cup {[r EXCEPT !.downloads = @ + 1, !.xmin = p, !.xmax = NoTx] :
                          r \in rows}
         /\ IF InsertNeeded(amt)
            THEN Goto(p, "insert_downloads")
            ELSE Goto(p, "redirect")
    /\ UNCHANGED <<crates, crate_owners, versions, teams, storage, index, members, config, follows,
                   crates_keywords, crates_categories,
                   dependencies, now, loc>>

NextDownloadId == 1 + Cardinality({r.id : r \in version_downloads})

\* INSERT INTO version_downloads (version_id) VALUES ($1): the row gets the
\* current time and a counter of one
InsertDownloads(p) ==
    /\ pc[p] = "insert_downloads"
    /\ version_downloads' = version_downloads \cup
          {[id |-> NextDownloadId, version_id |-> loc[p].version_id, date |-> now,
            downloads |-> 1, xmin |-> p, xmax |-> NoTx]}
    /\ Goto(p, "redirect")
    /\ UNCHANGED <<crates, crate_owners, versions, teams, storage, index, members, config, follows,
                   crates_keywords, crates_categories,
                   dependencies, now, loc>>

\* uploader.crate_location(crate_name, version): the redirect, or "crate
\* files not found" where the uploader has no location to give
Redirect(p) ==
    /\ pc[p] = "redirect"
    /\ \/ Succeed(p)
       \/ Fail(p, "crate_files_not_found")
    /\ UNCHANGED <<crates, crate_owners, versions, teams, storage, index, members, config, follows,
                   crates_keywords, crates_categories,
                   dependencies, version_downloads, now>>

DownloadNext ==
    \/ \E p \in Workers :
        \/ FirstIdle(p) /\ StartDownload(p)
        \/ UpdateDownloads(p)
        \/ InsertDownloads(p)
        \/ Redirect(p)
        \/ Finish(p)
    \/ Tick

\* concurrent downloads of the registry that holds foo 0.9.0
SpecDownload == InitOwned /\ [][DownloadNext]_vars

\* the first worker
Solo == CHOOSE p \in Workers : \A q \in Workers : ~WorkerBefore(q, p)

SequentialDownloadNext ==
    \/ StartDownload(Solo)
    \/ UpdateDownloads(Solo)
    \/ InsertDownloads(Solo)
    \/ Redirect(Solo)
    \/ Finish(Solo)
    \/ Tick

\* downloads served one after the other
SpecSequentialDownload == InitOwned /\ [][SequentialDownloadNext]_vars

\* downloads served by a primary or by a read-only mirror
SpecDeployedDownload == InitDeployed /\ [][SequentialDownloadNext]_vars

(***************************************************************************)
(* parse_new_headers: the required fields of an upload's metadata          *)
(***************************************************************************)
\* the strings a field may hold, and the authors lists
Texts == {"", "x"}
Options == {None} \cup {Some(t) : t \in Texts}
AuthorLists == UNION {[1..n -> Texts] : n \in 0..MaxAuthors}
NewCrates ==
    [description : Options, license : Options, license_file : Options,
     authors : AuthorLists]

\* fn empty(s: Option<&String>) -> bool { s.map_or(true, |s| s.is_empty()) }
empty(s) == IF s.some THEN s.val = "" ELSE TRUE

\* (variant: an authors list is missing only when it has no entry)
authors_missing_when_none(authors) == Len(authors) = 0

\* new.authors.len() == 0 || new.authors.iter().all(|s| s.is_empty())
authors_missing(authors) ==
    Len(authors) = 0 \/ \A i \in DOMAIN authors : authors[i] = ""

\* the vector `missing` of parse_new_headers
missing(new) ==
    (IF empty(new.description) THEN <<"description">> ELSE <<>>)
    \o (IF empty(new.license) /\ empty(new.license_file) THEN <<"license">> ELSE <<>>)
    \o (IF authors_missing(new.authors) THEN <<"authors">> ELSE <<>>)

\* parse_new_headers on decoded metadata: the error that lists the missing
\* fields, or the metadata
ParseNewHeaders(p) ==
    /\ pc[p] = "idle"
    /\ \E new \in NewCrates :
         /\ req' = [req EXCEPT ![p] =
                      [kind |-> "parse_new_headers", user |-> 0, name |-> <<>>,
                       vers |-> "", missing_dep |-> <<>>, new |-> new,
                       missing |-> missing(new)]]
         /\ IF Len(missing(new)) > 0
            THEN /\ pc' = [pc EXCEPT ![p] = "rollback"]
                 /\ res' = [res EXCEPT ![p] = "missing_or_empty_metadata_fields"]
            ELSE /\ pc' = [pc EXCEPT ![p] = "commit"]
                 /\ res' = [res EXCEPT ![p] = "ok"]
    /\ UNCHANGED <<crates, crate_owners, versions, teams, storage, index, members, config, follows,
                   crates_keywords, crates_categories,
                   dependencies, version_downloads, now, loc>>

HeadersNext ==
    \E p \in Workers :
        \/ FirstIdle(p) /\ ParseNewHeaders(p)
        \/ Finish(p)

SpecHeaders == Init /\ [][HeadersNext]_vars

(***************************************************************************)
(* GET /crates, the listing `index`, and GET /crates/:crate_id, `show`.    *)
(* The handlers read a catalog that no request changes meanwhile.          *)
(***************************************************************************)
MaxCount == 1
\* highest download count of a crate of the catalog
MaxPage == 3
\* last page a listing request asks for
MaxPerPage == 2
\* largest page size a listing request asks for

Bar_c == <<"B", "a", "r">>
Fb_d == <<"f", "-", "b">>
KW_u == <<"K", "W">>
CatSub == Cat \o <<":", ":", "s">>
Cats == Cat \o <<"s">>
NewestVers == "2.0.0"

\* char::to_lowercase / SQL lower()
to_lowercase(c) == IF c = "-" THEN c ELSE LowerChar(c)
lower(s) == [i \in DOMAIN s |-> to_lowercase(s[i])]

\* the order of the characters of the names (byte order)
Alphabet == <<"-", "B", "D", "F", "O", "S", "_", "a", "b", "d", "f", "o", "r", "s">>
CharCode(c) == CHOOSE i \in DOMAIN Alphabet : Alphabet[i] = c
RECURSIVE StrLess(_, _)
StrLess(a, b) ==
    IF b = <<>> THEN FALSE
    ELSE IF a = <<>> THEN TRUE
    ELSE IF Head(a) # Head(b) THEN CharCode(Head(a)) < CharCode(Head(b))
    ELSE StrLess(Tail(a), Tail(b))

\* s LIKE 'prefix%'
StartsWith(s, prefix) ==
    Len(s) >= Len(prefix) /\ SubSeq(s, 1, Len(prefix)) = prefix

\* the text search column of a crate row: the lexemes of its name and of
\* the words of its description
textsearchable_index_col(c) ==
    <<lower(c.name)>> \o
        (IF c.meta.description.some
         THEN [i \in DOMAIN c.meta.description.val |-> lower(c.meta.description.val[i])]
         ELSE <<>>)
plainto_tsquery(q_string) == lower(q_string)
\* q.matches(crates::textsearchable_index_col)
matches(tsq, tsv) == \E i \in DOMAIN tsv : tsv[i] = tsq
ts_rank_cd(tsv, tsq) == Cardinality({i \in DOMAIN tsv : tsv[i] = tsq})

\* semver::Version::parse and to_string
SemVers ==
    [s \in {"0.0.0", OldVers, "1.0.0", NewestVers} |->
        CASE s = "0.0.0" -> <<0, 0, 0>>
          [] s = OldVers -> <<0, 9, 0>>
          [] s = "1.0.0" -> <<1, 0, 0>>
          [] s = NewestVers -> <<2, 0, 0>>]
semver_parse(s) == SemVers[s]
semver_to_string(v) == CHOOSE s \in DOMAIN SemVers : SemVers[s] = v
SemVerLess(a, b) ==
    \/ a[1] < b[1]
    \/ a[1] = b[1] /\ a[2] < b[2]
    \/ a[1] = b[1] /\ a[2] = b[2] /\ a[3] < b[3]
\* Version::max: the greatest of the versions, 0.0.0 if there is none
VersionMax(vs) ==
    IF vs = {} THEN <<0, 0, 0>>
    ELSE CHOOSE v \in vs : \A w \in vs : ~SemVerLess(v, w)

\* s.parse::<i32>().ok()
parse_i32(s) ==
    CASE s = "1" -> Some(1)
      [] s = "2" -> Some(2)
      [] OTHER -> None

\* the query parameters of a listing request
Params ==
    [sort : {None, Some("downloads")},
     q : {None, Some(Foo_l), Some(Foo_u)},
     letter : {None, Some(<<"F">>), Some(<<>>)},
     keyword : {None, Some(KW_u)},
     category : {None, Some(Cat)},
     user_id : {None, Some("1"), Some("x")},
     following : {None, Some("1")}]
\* who asks: nobody who is logged in (0), or user 1
Viewers == {0, 1}
\* req.pagination: the offset and the limit of the page asked for
Pages ==
    {[offset |-> (page - 1) * per_page, limit |-> per_page] :
        page \in 1..MaxPage, per_page \in 1..MaxPerPage}

\* (variant: the letter is looked at before the query)
FilterModeLetterFirst(params) ==
    IF params.letter.some THEN "letter"
    ELSE IF params.q.some THEN "q"
    ELSE IF params.keyword.some THEN "keyword"
    ELSE IF params.category.some THEN "category"
    ELSE IF params.user_id.some /\ parse_i32(params.user_id.val).some THEN "user_id"
    ELSE IF params.following.some THEN "following"
    ELSE "none"

\* the branch of the if / else if chain of `index` that is taken
FilterMode(params) ==
    IF params.q.some THEN "q"
    ELSE IF params.letter.some THEN "letter"
    ELSE IF params.keyword.some THEN "keyword"
    ELSE IF params.category.some THEN "category"
    ELSE IF params.user_id.some /\ parse_i32(params.user_id.val).some THEN "user_id"
    ELSE IF params.following.some THEN "following"
    ELSE "none"

\* the rows the filter of a branch lets through
Filtered(mode, params, user, p) ==
    LET all == Visible(crates, p) IN
    CASE mode = "q" ->
           {c \in all : matches(plainto_tsquery(params.q.val),
                                textsearchable_index_col(c))}
      [] mode = "letter" ->
           {c \in all : StartsWith(canon_crate_name(c.name),
                                   <<to_lowercase(Head(params.letter.val))>>)}
      [] mode = "keyword" ->
           {c \in all : \E k \in Visible(crates_keywords, p) :
               k.crate_id = c.id /\ lower(k.keyword) = lower(params.keyword.val)}
      [] mode = "category" ->
           {c \in all : \E k \in Visible(crates_categories, p) :
               /\ k.crate_id = c.id
               /\ \/ k.slug = params.category.val
                  \/ StartsWith(k.slug, params.category.val \o <<":", ":">>)}
      [] mode = "user_id" ->
           {c \in all : \E o \in Visible(crate_owners, p) :
               /\ o.crate_id = c.id
               /\ o.owner_id = parse_i32(params.user_id.val).val
               /\ o.owner_kind = OwnerKindUser}
      [] mode = "following" ->
           {c \in all : \E f \in Visible(follows, p) :
               f.crate_id = c.id /\ f.user_id = user}
      [] OTHER -> all

\* crates::name.eq(q_string)
perfect_match(c, params) == c.name = params.q.val

\* (variant: the rows of a query are ordered as those of any other request)
BeforeByCount(a, b, params) ==
    IF params.sort = Some("downloads") THEN a.downloads > b.downloads
    ELSE StrLess(a.name, b.name)

\* the ORDER BY of the listing: row a comes strictly before row b
Before(a, b, params) ==
    IF params.q.some
    THEN LET pa == perfect_match(a, params)
             pb == perfect_match(b, params)
             tsq == plainto_tsquery(params.q.val) IN
           \/ pa /\ ~pb
           \/ /\ pa = pb
              /\ IF params.sort = Some("downloads")
                 THEN a.downloads > b.downloads
                 ELSE ts_rank_cd(textsearchable_index_col(a), tsq)
                        > ts_rank_cd(textsearchable_index_col(b), tsq)
    ELSE IF params.sort = Some("downloads") THEN a.downloads > b.downloads
    ELSE StrLess(a.name, b.name)

\* the orders the database may return the rows in: rows the ORDER BY does
\* not tell apart come in any order
Orderings(rows, params) ==
    {s \in [1..Cardinality(rows) -> rows] :
        /\ \A i, j \in DOMAIN s : i # j => s[i] # s[j]
        /\ \A i, j \in DOMAIN s : i < j => ~Before(s[j], s[i], params)}

\* LIMIT and OFFSET
Window(s, page) ==
    IF page.offset >= Len(s) THEN <<>>
    ELSE SubSeq(s, page.offset + 1,
                IF page.offset + page.limit < Len(s)
                THEN page.offset + page.limit ELSE Len(s))

\* COUNT(*) OVER () as read from the first row of the page:
\* data.get(0).map(|&(_, t)| t).unwrap_or(0)
WindowTotal(data, count) == IF data = <<>> THEN 0 ELSE count

\* Version::belonging_to(&crates): the versions of a crate, yanked or not
BelongingTo(c, p) == {v \in Visible(versions, p) : v.crate_id = c.id}

\* Crate::max_version: SELECT num FROM versions WHERE crate_id = $1 AND yanked = 'f'
max_version(c, p) ==
    VersionMax({semver_parse(v.num) : v \in {x \in BelongingTo(c, p) : ~x.yanked}})

\* Crate::minimal_encodable / encodable: the fields followed here
Encodable(c, max) == [name |-> c.name, max_version |-> semver_to_string(max)]

\* the whole handler `index`, for requests drawn from the given parameters,
\* pages and users
IndexOf(p, someParams, somePages, someViewers) ==
    /\ pc[p] = "idle"
    /\ \E params \in someParams, page \in somePages, u \in someViewers :
         LET new == [NoReq EXCEPT !.kind = "index", !.user = u]
                       @@ [params |-> params, page |-> page]
             mode == FilterMode(params) IN
           IF mode = "letter" /\ params.letter.val = <<>>
           THEN Refuse(p, new, "panic")
           ELSE IF mode = "following" /\ u = 0
           THEN Refuse(p, new, "unauthorized")
           ELSE LET rows == Filtered(mode, params, u, p) IN
                \E s \in Orderings(rows, params) :
                  LET data == Window(s, page)
                      total == WindowTotal(data, Cardinality(rows)) IN
                    /\ res' = [res EXCEPT ![p] =
                          [crates |-> [i \in DOMAIN data |->
                               Encodable(data[i],
                                  VersionMax({semver_parse(v.num) :
                                                v \in BelongingTo(data[i], p)}))],
                           total |-> total]]
                    /\ pc' = [pc EXCEPT ![p] = "commit"]
                    /\ req' = [req EXCEPT ![p] = new]
                    /\ UNCHANGED loc
    /\ UNCHANGED <<crates, crate_owners, versions, teams, storage, index, members,
                   dependencies, version_downloads, now, config, follows,
                   crates_keywords, crates_categories>>

\* `index` for any request
Index(p) == IndexOf(p, Params, Pages, Viewers)

\* the whole handler `show`, as far as the encoded crate goes
Show(p) ==
    /\ pc[p] = "idle"
    /\ \E name \in NameSet \cup {Bar_c} :
         LET new == [NoReq EXCEPT !.kind = "show", !.name = name]
             rows == CratesByName(name, p) IN
           IF rows = {}
           THEN Refuse(p, new, "not_found")
           ELSE LET krate == CHOOSE c \in rows : TRUE IN
                /\ res' = [res EXCEPT ![p] =
                      [crates |-> <<Encodable(krate, max_version(krate, p))>>]]
                /\ pc' = [pc EXCEPT ![p] = "commit"]
                /\ req' = [req EXCEPT ![p] = new]
                /\ UNCHANGED loc
    /\ UNCHANGED <<crates, crate_owners, versions, teams, storage, index, members,
                   dependencies, version_downloads, now, config, follows,
                   crates_keywords, crates_categories>>

\* a catalog of three crates: foo, Bar and f-b
CatalogCrate(id, name, description, downloads) ==
    [id |-> id, name |-> name,
     meta |-> [StoredMeta(MitMeta) EXCEPT !.description = description],
     max_upload_size |-> None, downloads |-> downloads,
     xmin |-> NoTx, xmax |-> NoTx]

InitCatalog ==
    /\ \E d \in [1..2 -> 0..MaxCount], words \in {None, Some(<<Foo_l>>)} :
         crates = {CatalogCrate(1, Foo_l, None, d[1]),
                   CatalogCrate(2, Bar_c, Some(<<Foo_u, Foo_l>>), d[2]),
                   CatalogCrate(3, Fb_d, words, MaxCount)}
    /\ crate_owners =
         {[crate_id |-> 1, owner_id |-> 1, owner_kind |-> OwnerKindUser,
           deleted |-> FALSE, xmin |-> NoTx, xmax |-> NoTx],
          [crate_id |-> 2, owner_id |-> 1, owner_kind |-> OwnerKindTeam,
           deleted |-> FALSE, xmin |-> NoTx, xmax |-> NoTx],
          [crate_id |-> 2, owner_id |-> 2, owner_kind |-> OwnerKindUser,
           deleted |-> FALSE, xmin |-> NoTx, xmax |-> NoTx]}
    /\ \E y \in BOOLEAN :
         versions =
           {[crate_id |-> 1, num |-> OldVers, yanked |-> FALSE, xmin |-> NoTx, xmax |-> NoTx],
            [crate_id |-> 1, num |-> NewestVers, yanked |-> y, xmin |-> NoTx, xmax |-> NoTx],
            [crate_id |-> 2, num |-> "1.0.0", yanked |-> FALSE, xmin |-> NoTx, xmax |-> NoTx]}
    /\ teams = {[id |-> TheTeam.id, login |-> TheTeam.login, xmin |-> NoTx, xmax |-> NoTx]}
    /\ storage = {}
    /\ index = [k \in NameSet \X AllVers |-> 0]
    /\ members = {1}
    /\ dependencies = {}
    /\ version_downloads = {}
    /\ now = Midnight
    /\ config = [mirror |-> "Primary"]
    /\ follows = {[user_id |-> 1, crate_id |-> 3, xmin |-> NoTx, xmax |-> NoTx]}
    /\ crates_keywords =
         {[crate_id |-> 2, keyword |-> Kw, xmin |-> NoTx, xmax |-> NoTx]}
    /\ crates_categories =
         {[crate_id |-> 1, slug |-> Cats, xmin |-> NoTx, xmax |-> NoTx],
          [crate_id |-> 2, slug |-> Cat, xmin |-> NoTx, xmax |-> NoTx],
          [crate_id |-> 3, slug |-> CatSub, xmin |-> NoTx, xmax |-> NoTx]}
    /\ pc = [p \in Workers |-> "idle"]
    /\ req = [p \in Workers |-> NoReq]
    /\ loc = [p \in Workers |-> NoLoc]
    /\ res = [p \in Workers |-> "none"]

IndexNext ==
    \/ Index(Solo)
    \/ Show(Solo)
    \/ Finish(Solo)

\* listing and show requests on the catalog, served one after the other
SpecIndex == InitCatalog /\ [][IndexNext]_vars

\* the listing requests that ask for the crates of a user, first page
NoParams ==
    [sort |-> None, q |-> None, letter |-> None, keyword |-> None,
     category |-> None, user_id |-> None, following |-> None]
OwnedByParams == {[NoParams EXCEPT !.user_id = Some(id)] : id \in {"1", "2"}}
FirstPage == {[offset |-> 0, limit |-> MaxPerPage]}

\* owner modifications and listings by owner on the registry that holds
\* foo, served one after the other
OwnersIndexNext ==
    \/ StartModifyOwners(Solo)
    \/ OwnerAddResolve(Solo)
    \/ OwnerAddUpdate(Solo)
    \/ OwnerAddInsert(Solo)
    \/ OwnerRemove(Solo)
    \/ IndexOf(Solo, OwnedByParams, FirstPage, {0})
    \/ Finish(Solo)

SpecOwnersIndex == InitOwned /\ [][OwnersIndexNext]_vars

(***************************************************************************)
(* follow, unfollow and following.  The handlers use a pooled connection   *)
(* (req.db_conn), not the request's transaction: each statement is         *)
(* committed as it runs.                                                   *)
(***************************************************************************)
FollowKinds == {"follow", "unfollow", "following"}

\* the rows of follows with the primary key (user_id, crate_id)
FollowRows(user_id, crate_id) ==
    {r \in follows : r.user_id = user_id /\ r.crate_id = crate_id}

\* the handler answers: the request and the handler's locals stay until the
\* response is written
Answer(p, r) ==
    /\ pc' = [pc EXCEPT ![p] = "commit"]
    /\ res' = [res EXCEPT ![p] = r]
    /\ UNCHANGED req

\* follow_target: the user of the request and Crate::by_name(..).first
FollowTarget(p) ==
    /\ pc[p] = "idle"
    /\ \E u \in Users, name \in NameSet, kind \in FollowKinds :
         LET new == [NoReq EXCEPT !.kind = kind, !.user = u, !.name = name]
             rows == CratesByName(name, p) IN
           IF rows = {}
           THEN Refuse(p, new, "not_found")
           ELSE /\ loc' = [loc EXCEPT ![p].krate = CrateOf(CHOOSE x \in rows : TRUE)]
                /\ Begin(p, new, "statement")
    /\ UNCHANGED <<crates, crate_owners, versions, teams, storage, index, members,
                   dependencies, version_downloads, now, config, follows,
                   crates_keywords, crates_categories>>

\* (variant: a plain INSERT, which the primary key turns down)
conflict_raises(conflict) == conflict

\* follow.on_conflict_do_nothing(): a conflicting row is no error
on_conflict_do_nothing(conflict) == FALSE

\* diesel::insert(&follow.on_conflict_do_nothing()).into(follows::table);
\* loc.n is the row count `execute` returns
Follow(p) ==
    /\ pc[p] = "statement" /\ req[p].kind = "follow"
    /\ LET conflict == FollowRows(req[p].user, loc[p].krate.id) # {} IN
         IF on_conflict_do_nothing(conflict)
         THEN /\ Fail(p, "follows_pkey_violation")
              /\ UNCHANGED follows
         ELSE /\ follows' = IF conflict THEN follows
                            ELSE follows \cup
                                   {[user_id |-> req[p].user, crate_id |-> loc[p].krate.id,
                                     xmin |-> NoTx, xmax |-> NoTx]}
              /\ loc' = [loc EXCEPT ![p].n = IF conflict THEN 0 ELSE 1]
              /\ Answer(p, "ok")
    /\ UNCHANGED <<crates, crate_owners, versions, teams, storage, index, members,
                   dependencies, version_downloads, now, config,
                   crates_keywords, crates_categories>>

\* diesel::delete(&follow): DELETE FROM follows WHERE user_id = $1 AND crate_id = $2
Unfollow(p) ==
    /\ pc[p] = "statement" /\ req[p].kind = "unfollow"
    /\ LET rows == FollowRows(req[p].user, loc[p].krate.id) IN
         /\ follows' = follows \ rows
         /\ loc' = [loc EXCEPT ![p].n = Cardinality(rows)]
         /\ Answer(p, "ok")
    /\ UNCHANGED <<crates, crate_owners, versions, teams, storage, index, members,
                   dependencies, version_downloads, now, config,
                   crates_keywords, crates_categories>>

\* select(exists(follows::table.find(follow.id())))
Following(p) ==
    /\ pc[p] = "statement" /\ req[p].kind = "following"
    /\ LET following == FollowRows(req[p].user, loc[p].krate.id) # {} IN
         Answer(p, IF following THEN "following" ELSE "not_following")
    /\ UNCHANGED <<crates, crate_owners, versions, teams, storage, index, members,
                   dependencies, version_downloads, now, config, follows,
                   crates_keywords, crates_categories, loc>>

FollowNext ==
    \E p \in Workers :
        \/ FirstIdle(p) /\ FollowTarget(p)
        \/ Follow(p)
        \/ Unfollow(p)
        \/ Following(p)
        \/ Finish(p)

\* concurrent follow requests to the registry that holds foo
SpecFollow == InitOwned /\ [][FollowNext]_vars

(***************************************************************************)
(* Properties                                                              *)
(***************************************************************************)
Views == {Committed(crate_owners)} \cup {Visible(crate_owners, p) : p \in Workers}
ReservedCanon == {canon_crate_name(x) : x \in reserved_crate_names}
OwnerRowsOfCrate(id) == {o \in crate_owners : o.crate_id = id}
InFlightBy(t, p) == {r \in t : r.xmin = p}
\* the request of p is abandoned in this step
Abandoned(p) == pc[p] \notin {"idle", "commit", "rollback"} /\ pc'[p] = "idle"
\* the handler of p takes a step in this step
Moves(p) == pc'[p] # pc[p] /\ ~Abandoned(p)

\* C1: concurrent create_or_update calls for one canonical name leave one
\* crate row with one owner row, the row of the caller whose INSERT returned
\* the crate; a caller that went through the update branch gets that same
\* crate and has inserted no owner row; the owner row of a committed crate
\* does not change afterwards.
C1_State ==
    /\ \A r1, r2 \in crates :
          canon_crate_name(r1.name) = canon_crate_name(r2.name) => r1.id = r2.id
    /\ \A r \in crates : Cardinality(OwnerRowsOfCrate(r.id)) = 1
    /\ \A o \in crate_owners : \E r \in crates : r.id = o.crate_id
    /\ \A p \in Workers :
          /\ (pc[p] = "commit" /\ res[p] = "created") =>
                \A o \in OwnerRowsOfCrate(loc[p].krate.id) :
                    o.owner_id = req[p].user /\ o.xmin = p
          /\ (pc[p] = "commit" /\ res[p] = "updated") =>
                /\ InFlightBy(crate_owners, p) = {}
                /\ \A r \in crates :
                      canon_crate_name(r.name) = canon_crate_name(req[p].name)
                         => r.id = loc[p].krate.id
                /\ \A o \in OwnerRowsOfCrate(loc[p].krate.id) : o.xmin = NoTx

C1_Step ==
    \A r \in Committed(crates) :
        {o.owner_id : o \in {x \in crate_owners' : x.crate_id = r.id}}
            = {o.owner_id : o \in OwnerRowsOfCrate(r.id)}

C1_CreateOrUpdateRace == [](C1_State) /\ [][C1_Step]_vars

\* a call that overlapped a call of another uploader for the same canonical
\* name has returned through the update branch; the crate's owner is the other
C1_Witness ==
    \E p \in Workers :
        /\ pc[p] = "commit" /\ res[p] = "updated" /\ loc[p].overlap
        /\ \E o \in OwnerRowsOfCrate(loc[p].krate.id) : o.owner_id # req[p].user

\* C2: of two concurrent publish requests for one new canonical name,
\* neither fails with the error of its crate INSERT colliding with the
\* other's.
C2_NoInsertCollision ==
    \A p \in Workers :
        ~(pc[p] = "rollback" /\ req[p].kind = "publish"
            /\ res[p] = "crates_unique_violation")

\* C3: no two crate rows have the same canonical name, and no crate row has
\* the canonical name of a reserved name.
C3_CanonicalNamesUnique ==
    /\ \A r1, r2 \in crates :
          canon_crate_name(r1.name) = canon_crate_name(r2.name) => r1.id = r2.id
    /\ \A r \in crates : canon_crate_name(r.name) \notin ReservedCanon
    /\ \A p \in Workers : \A r1, r2 \in Visible(crates, p) : r1.id = r2.id => r1 = r2

\* a crate is committed, a request under another casing of its name has been
\* led to that crate, and a request for a reserved name has been turned down
C3_Witness ==
    \E p, q \in Workers :
        /\ pc[p] = "rollback" /\ res[p] = "reserved_name"
        /\ pc[q] = "gate" /\ req[q].name # loc[q].krate.name
        /\ \E r \in Committed(crates) : r.id = loc[q].krate.id

\* C4: a publish request gets past the gate, and so adds a version row, an
\* artifact or an index entry, only if the owner rows give its user rights of
\* at least Publish at the gate; with rights None it is rejected there and
\* changes no version, artifact or index entry.
C4_State ==
    \A p \in Workers :
        /\ pc[p] \in {"add_version", "version_insert", "add_dependency",
                     "update_crate", "upload", "add_crate"}
              => loc[p].entitled
        /\ (pc[p] = "rollback" /\ res[p] = "not_authorized")
              => InFlightBy(versions, p) = {}

C4_Step ==
    /\ \A p \in Workers :
          (/\ pc[p] = "gate" /\ Moves(p)
           /\ Standing(req[p].user, loc[p].krate.id, p) = "None")
             => /\ pc'[p] = "rollback" /\ res'[p] = "not_authorized"
                /\ UNCHANGED <<versions, storage, index>>
    /\ (versions' # versions \/ storage' # storage \/ index' # index)
          => \E p \in Workers :
                /\ Moves(p) \/ Abandoned(p)
                /\ loc[p].entitled \/ pc[p] \in {"commit", "rollback"}

C4_PublishNeedsRights == [](C4_State) /\ [][C4_Step]_vars

\* a member of an owning team, with no owner row of their own, has a version
\* row in flight
C4_Witness ==
    \E p \in Workers :
        /\ pc[p] = "upload"
        /\ InFlightBy(versions, p) # {}
        /\ Standing(req[p].user, loc[p].krate.id, p) = "Publish"

\* C5: a publish request whose name equals an existing crate's name
\* canonically but not literally is rejected at the gate, whatever the
\* requester's rights, and adds no version.
C5_State ==
    \A p \in Workers :
        /\ pc[p] \in {"add_version", "version_insert", "add_dependency",
                     "update_crate", "upload", "add_crate"}
              => \E r \in Visible(crates, p) :
                    r.id = loc[p].krate.id /\ r.name = req[p].name
        /\ (pc[p] = "rollback" /\ res[p] = "previously_named")
              => InFlightBy(versions, p) = {}

C5_Step ==
    \A p \in Workers :
        (/\ pc[p] = "gate" /\ Moves(p)
         /\ \E r \in Visible(crates, p) :
               r.id = loc[p].krate.id /\ r.name # req[p].name)
           => pc'[p] = "rollback" /\ UNCHANGED versions

C5_OtherCasingRejected == [](C5_State) /\ [][C5_Step]_vars

\* a direct owner of the crate has published under another casing and been
\* turned down
C5_Witness ==
    \E p \in Workers :
        /\ pc[p] = "rollback" /\ res[p] = "previously_named"
        /\ \E r \in Visible(crates, p) :
              /\ canon_crate_name(r.name) = canon_crate_name(req[p].name)
              /\ r.name # req[p].name
              /\ Standing(req[p].user, r.id, p) = "Full"

\* C6: whatever adds and removes ran, every transaction and the committed
\* table see at most one crate_owners row per (crate, owner, kind), hence at
\* most one non-deleted one; a committed row never disappears; adding an
\* owner whose row exists flips that row and does not insert.
C6_State ==
    \A v \in Views : \A o1, o2 \in v : OwnerKey(o1) = OwnerKey(o2) => o1 = o2

C6_Step ==
    /\ \A o \in Committed(crate_owners) :
          \E n \in Committed(crate_owners') : OwnerKey(n) = OwnerKey(o)
    /\ \A p \in Workers :
          (/\ pc[p] = "owner_add_update" /\ Moves(p)
           /\ \E o \in Visible(crate_owners, p) :
                 OwnerKey(o) = <<loc[p].krate.id, loc[p].owner.id, loc[p].owner.kind>>)
             => /\ pc'[p] # "owner_add_insert"
                /\ \E n \in Visible(crate_owners', p) :
                      /\ OwnerKey(n) = <<loc[p].krate.id, loc[p].owner.id, loc[p].owner.kind>>
                      /\ ~n.deleted

C6_OneOwnerRow == [](C6_State) /\ [][C6_Step]_vars

\* an owner that was added and removed is being added again: the committed
\* row is the deleted one, and the transaction has flipped it
C6_Witness ==
    \E p \in Workers : \E o, n \in crate_owners :
        /\ OwnerKey(o) = OwnerKey(n)
        /\ o.xmin = NoTx /\ o.deleted /\ o.xmax = p
        /\ n.xmin = p /\ ~n.deleted
        /\ Cardinality({x \in crate_owners : OwnerKey(x) = OwnerKey(o)}) = 2

\* C7 (as stated): an add request of an actor with rights Publish passes
\* the gate of the owner-modification endpoint.
C7_PublishMayAdd ==
    \A p \in Workers :
        ~(pc[p] = "rollback" /\ req[p].kind = "add_owners"
            /\ res[p] = "team_members_cannot_modify")

\* C7 (amended): an add request gets past the gate of the owner-modification
\* endpoint only with Full rights; an actor with rights Publish is turned
\* down and changes no owner row.
C7_State ==
    \A p \in Workers :
        pc[p] \in {"add", "owner_add_update", "owner_add_insert"} => loc[p].entitled

C7_Step ==
    \A p \in Workers :
        (/\ pc[p] = "idle" /\ Moves(p)
         /\ req'[p].kind = "add_owners"
         /\ \A r \in Visible(crates, p) : Standing(req'[p].user, r.id, p) = "Publish")
           => pc'[p] = "rollback" /\ UNCHANGED <<crate_owners, teams>>

C7_AddNeedsFull == [](C7_State) /\ [][C7_Step]_vars

\* a team member without an owner row has asked to add owners and been
\* turned down
C7_Witness ==
    \E p \in Workers :
        /\ pc[p] = "rollback" /\ req[p].kind = "add_owners"
        /\ res[p] = "team_members_cannot_modify"
        /\ \E r \in Visible(crates, p) : Standing(req[p].user, r.id, p) = "Publish"

\* C8: a removal request changes owner rows only if the owner rows gave its
\* user Full rights at the gate; with rights Publish or None it is rejected
\* and changes no owner row.
C8_State ==
    \A p \in Workers :
        /\ pc[p] = "remove" => loc[p].entitled
        /\ (/\ pc[p] = "rollback" /\ req[p].kind = "remove_owners"
            /\ res[p] \in {"team_members_cannot_modify", "only_owners_can_modify"})
              => InFlightBy(crate_owners, p) = {}

C8_Step ==
    \A p \in Workers :
        /\ (/\ pc[p] = "idle" /\ Moves(p)
            /\ req'[p].kind = "remove_owners"
            /\ \A r \in Visible(crates, p) : Standing(req'[p].user, r.id, p) # "Full")
              => pc'[p] = "rollback" /\ UNCHANGED crate_owners
        /\ (/\ req[p].kind = "remove_owners" /\ Moves(p)
            /\ pc[p] \notin {"commit", "rollback"}
            /\ crate_owners' # crate_owners)
              => loc[p].entitled

C8_RemoveNeedsFull == [](C8_State) /\ [][C8_Step]_vars

\* one removal request was turned down for lack of rights while another, by
\* an owner, has a row marked deleted
C8_Witness ==
    \E p, q \in Workers :
        /\ pc[p] = "rollback" /\ req[p].kind = "remove_owners"
        /\ res[p] = "only_owners_can_modify"
        /\ pc[q] = "commit"
        /\ \E o \in InFlightBy(crate_owners, q) : o.deleted

\* C9: the gates read non-deleted owner rows only: a publish request gets
\* past its gate only if a non-deleted row names its user or a team the user
\* belongs to, an owner-modification request only if a non-deleted row names
\* its user; a user whose row is marked deleted, with no such team, is
\* rejected.
C9_Step ==
    \A p \in Workers :
        /\ (pc[p] = "gate" /\ Moves(p) /\ pc'[p] # "rollback")
              => Standing(req[p].user, loc[p].krate.id, p) # "None"
        /\ (pc[p] = "idle" /\ pc'[p] \in {"add", "remove"})
              => Standing(req'[p].user, loc'[p].krate.id, p) = "Full"
        /\ (/\ pc[p] \in {"gate", "idle"} /\ Moves(p)
            /\ req'[p].kind \in {"publish", "add_owners", "remove_owners"}
            /\ pc'[p] # "find_or_insert_insert"
            /\ \A r \in Visible(crates, p) :
                  /\ \E o \in Visible(crate_owners, p) :
                        /\ OwnerKey(o) = <<r.id, req'[p].user, OwnerKindUser>>
                        /\ o.deleted
                  /\ Standing(req'[p].user, r.id, p) = "None")
              => pc'[p] \in {"gate", "rollback"}

C9_RemovedOwnerRejected == [][C9_Step]_vars

\* the crate's first owner, removed since, has published and been turned down
C9_Witness ==
    \E p \in Workers :
        /\ pc[p] = "rollback" /\ res[p] = "not_authorized"
        /\ req[p].user = 1
        /\ \E o \in Committed(crate_owners) :
              o.owner_id = 1 /\ o.owner_kind = OwnerKindUser /\ o.deleted

\* C10: owner_add for a login that resolves to a team goes on to the owner
\* row only if the requester belongs to the team; otherwise it is rejected
\* and no owner row is created or un-deleted.
C10_State ==
    \A p \in Workers :
        /\ (/\ pc[p] \in {"owner_add_update", "owner_add_insert"}
            /\ loc[p].owner.kind = OwnerKindTeam)
              => req[p].user \in members
        /\ (pc[p] = "rollback" /\ res[p] = "only_members_can_add_team")
              => \A o \in InFlightBy(crate_owners, p) :
                    o.owner_kind # OwnerKindTeam \/ o.deleted

C10_Step ==
    \A p \in Workers : \A n \in crate_owners' \ crate_owners :
        (n.xmin = p /\ n.owner_kind = OwnerKindTeam /\ ~n.deleted)
           => req[p].user \in members

C10_TeamAddNeedsMember == [](C10_State) /\ [][C10_Step]_vars

\* a requester outside the team has asked to add the existing team and been
\* turned down
C10_Witness ==
    \E p \in Workers :
        /\ pc[p] = "rollback" /\ res[p] = "only_members_can_add_team"
        /\ req[p].user \notin members
        /\ \E t \in Committed(teams) : t.login = TheTeam.login

\* C11: a publish request whose version number the crate already has fails
\* at add_version with "already uploaded", and writes no version row and no
\* dependency row.
C11_State ==
    \A p \in Workers :
        (pc[p] = "rollback" /\ res[p] = "already_uploaded")
           => InFlightBy(versions, p) = {} /\ InFlightBy(dependencies, p) = {}

C11_Step ==
    \A p \in Workers :
        (/\ pc[p] = "add_version" /\ Moves(p)
         /\ \E v \in Visible(versions, p) :
               v.crate_id = loc[p].krate.id /\ v.num = req[p].vers)
           => /\ pc'[p] = "rollback" /\ res'[p] = "already_uploaded"
              /\ UNCHANGED <<versions, dependencies>>

C11_DuplicateVersionRefused == [](C11_State) /\ [][C11_Step]_vars

\* a request has been refused for a version that is committed
C11_Witness ==
    \E p \in Workers :
        /\ pc[p] = "rollback" /\ res[p] = "already_uploaded"
        /\ \E v \in Committed(versions) : v.num = req[p].vers
        /\ \E c \in Committed(crates) : c.name = req[p].name

\* C12: in every view of the versions table, no two rows have the same crate
\* and number; no more than one index entry is appended for a crate and
\* number; and a request never reaches its version INSERT while any row
\* for its crate and number exists, so concurrent publishes of one version
\* never meet at the INSERT.
C12_VersionsUnique ==
    /\ \A t \in {Committed(versions)} \cup {Visible(versions, p) : p \in Workers} :
          \A v1, v2 \in t : VersionKey(v1) = VersionKey(v2) => v1 = v2
    /\ \A n1, n2 \in NameSet : \A v \in AllVers :
          canon_crate_name(n1) = canon_crate_name(n2)
             => /\ index[<<n1, v>>] <= 1
                /\ n1 # n2 => index[<<n1, v>>] + index[<<n2, v>>] <= 1
    /\ \A p \in Workers :
          pc[p] = "version_insert"
             => \A v \in versions : VersionKey(v) # <<loc[p].krate.id, req[p].vers>>

\* the version is committed and indexed once, and a second request for it
\* has been refused
C12_Witness ==
    \E p \in Workers :
        /\ pc[p] = "rollback" /\ res[p] = "already_uploaded"
        /\ Cardinality({v \in versions : v.num = req[p].vers}) = 1
        /\ index[<<req[p].name, req[p].vers>>] = 1
        /\ <<req[p].name, OldVers>> \in storage

\* C13: a publish request one of whose dependencies names no crate fails
\* there: it goes no further, and once it has ended neither its version row
\* nor any dependency row it wrote is left, those of the dependencies it
\* resolved before the failing one included.
C13_State ==
    \A p \in Workers :
        /\ pc[p] \in {"add_dependency", "update_crate", "upload", "add_crate"}
              => req[p].missing_dep = <<>>
        /\ (pc[p] = "rollback" /\ res[p] = "dependency_not_found")
              => \A c \in Visible(crates, p) :
                    canon_crate_name(c.name) # canon_crate_name(req[p].missing_dep)

C13_Step ==
    \A p \in Workers :
        (pc[p] = "rollback" /\ res[p] = "dependency_not_found" /\ pc'[p] = "idle")
           => /\ versions' = versions \ InFlightBy(versions, p)
              /\ dependencies' = dependencies \ InFlightBy(dependencies, p)
              /\ Committed(versions') = Committed(versions)
              /\ Committed(dependencies') = Committed(dependencies)
              /\ UNCHANGED <<storage, index>>

C13_UnresolvedDependencyFails == [](C13_State) /\ [][C13_Step]_vars

\* a request has failed at its second dependency: its version row and the
\* row of its first dependency are still in flight
C13_Witness ==
    \E p \in Workers :
        /\ pc[p] = "rollback" /\ res[p] = "dependency_not_found"
        /\ InFlightBy(versions, p) # {}
        /\ InFlightBy(dependencies, p) # {}

\* the artifact of the request that is about to register its version
ArtifactOf(p) == <<loc[p].krate.name, req[p].vers>>

\* C14: when the upload has succeeded and the index registration fails, the
\* artifact is deleted from storage and the request ends with the index
\* failure as its error, never with the success response.
C14_Step ==
    \A p \in Workers :
        (pc[p] = "add_crate" /\ Moves(p) /\ index' = index)
           => /\ ArtifactOf(p) \in storage
              /\ ArtifactOf(p) \notin storage'
              /\ res'[p] = "index_failed"

C14_State ==
    \A p \in Workers :
        res[p] = "ok" /\ req[p].kind = "none" /\ InFlightBy(versions, p) # {}
           => \A v \in InFlightBy(versions, p) : \A c \in Visible(crates, p) :
                 c.id = v.crate_id => index[<<c.name, v.num>>] >= 1

C14_IndexFailureDeletesArtifact == [](C14_State) /\ [][C14_Step]_vars

\* a request has ended with the index failure; its artifact is not stored
C14_Witness ==
    \E p \in Workers :
        /\ res[p] = "index_failed"
        /\ \E v \in InFlightBy(versions, p) : \E c \in Visible(crates, p) :
              /\ c.id = v.crate_id
              /\ <<c.name, v.num>> \notin storage
              /\ index[<<c.name, v.num>>] = 0

\* C15: whenever no request is between its upload and its index
\* registration for an artifact, the artifact is in storage exactly if its
\* index entry was appended, whichever way the requests ended (success,
\* error return, abandonment); and a request's bomb is disarmed only by a
\* step that appends the index entry or deletes the artifact.
C15_State ==
    \A k \in NameSet \X AllVers :
        /\ index[k] >= 1 => k \in storage
        /\ (k \in storage /\ index[k] = 0)
              => \E p \in Workers : pc[p] = "add_crate" /\ ArtifactOf(p) = k

C15_Step ==
    \A p \in Workers :
        (loc[p].bomb /\ ~loc'[p].bomb)
           => \/ index'[ArtifactOf(p)] = index[ArtifactOf(p)] + 1
              \/ ArtifactOf(p) \notin storage'

C15_ArtifactIffIndexed == [](C15_State) /\ [][C15_Step]_vars

\* a request has ended with success: its artifact is stored and indexed
C15_Witness ==
    \E p \in Workers :
        /\ pc[p] = "commit" /\ res[p] = "ok"
        /\ \E v \in InFlightBy(versions, p) : \E c \in Visible(crates, p) :
              /\ c.id = v.crate_id
              /\ <<c.name, v.num>> \in storage
              /\ index[<<c.name, v.num>>] = 1

\* C16: when the upload or the index registration fails, the version row
\* that add_version inserted is kept: it is committed when the request ends,
\* although no index entry exists for it.
C16_State ==
    \A p \in Workers :
        res[p] \in {"upload_failed", "index_failed"}
           => /\ pc[p] = "commit"
              /\ InFlightBy(versions, p) # {}

C16_Step ==
    \A p \in Workers :
        (res[p] \in {"upload_failed", "index_failed"} /\ pc'[p] = "idle")
           => \A v \in InFlightBy(versions, p) :
                 /\ [v EXCEPT !.xmin = NoTx] \in Committed(versions')
                 /\ \A c \in Committed(crates') :
                       c.id = v.crate_id => index'[<<c.name, v.num>>] = 0

LicenseAcceptable(license) ==
    license.some =>
        /\ license.val # <<>>
        /\ \A i \in DOMAIN license.val :
              IF license.val[i] = "/"
              THEN i \notin {1, Len(license.val)} /\ license.val[i - 1] # "/"
              ELSE license.val[i] \in {"MIT", "Apache-2.0", "non-standard"}

\* an absolute http or https URL
UrlAcceptable(url) ==
    url.some => url.val.parses /\ url.val.scheme \in {"http", "https"}

\* C17: a publish request whose license or URL fails validation writes
\* nothing: it is turned down before the first UPDATE or INSERT on crates,
\* so no crate row ever holds a license with an unknown part or a URL that
\* is not an absolute http or https URL.
C17_State ==
    /\ \A r \in crates :
          /\ LicenseAcceptable(r.meta.license)
          /\ UrlAcceptable(r.meta.homepage)
          /\ UrlAcceptable(r.meta.repository)
    /\ \A p \in Workers :
          (pc[p] = "rollback" /\ res[p] = "invalid_metadata")
             => /\ InFlightBy(crates, p) = {}
                /\ InFlightBy(crate_owners, p) = {}
                /\ InFlightBy(versions, p) = {}
                /\ \A r \in crates : r.xmax # p

C17_Step ==
    \A p \in Workers :
        res'[p] = "invalid_metadata" /\ res[p] # "invalid_metadata"
           => /\ pc[p] = "idle"
              /\ UNCHANGED <<crates, crate_owners, versions, dependencies,
                             storage, index>>

C17_InvalidMetadataWritesNothing == [](C17_State) /\ [][C17_Step]_vars

\* a crate row holds the license MIT/Apache-2.0, and a request has been
\* turned down for its metadata
C17_Witness ==
    /\ \E r \in Committed(crates) : r.meta.license = Some(<<"MIT", "/", "Apache-2.0">>)
    /\ \E p \in Workers : pc[p] = "rollback" /\ res[p] = "invalid_metadata"

\* the required fields that the metadata `new` lacks
FieldsMissing(new) ==
    {f \in {"description", "license", "authors"} :
        \/ f = "description"
           /\ (new.description.some => new.description.val = "")
        \/ f = "license"
           /\ (new.license.some => new.license.val = "")
           /\ (new.license_file.some => new.license_file.val = "")
        \/ f = "authors"
           /\ ~\E i \in DOMAIN new.authors : new.authors[i] # ""}

RowsOfDay(t, version_id, day) ==
    {r \in t : r.version_id = version_id /\ date(r.date) = day}

\* C19: with downloads served one after the other, a version has at most
\* one version_downloads row per day: a download on a day that has a row
\* adds one to that row's counter and adds no row, and a download on a day
\* without a row adds one row for that day with counter 1.
C19_State ==
    \A r1, r2 \in Visible(version_downloads, Solo) :
        (r1.version_id = r2.version_id /\ date(r1.date) = date(r2.date)) => r1 = r2

C19_Step ==
    LET before == RowsOfDay(Visible(version_downloads, Solo), loc[Solo].version_id, date(now))
        after == RowsOfDay(Visible(version_downloads', Solo), loc[Solo].version_id, date(now))
        others(t) == {r \in Visible(t, Solo) : r \notin
                        RowsOfDay(Visible(t, Solo), loc[Solo].version_id, date(now))} IN
      /\ (pc[Solo] = "update_downloads" /\ pc'[Solo] # pc[Solo])
            => /\ others(version_downloads') = others(version_downloads)
               /\ IF before = {}
                  THEN after = {} /\ pc'[Solo] = "insert_downloads"
                  ELSE /\ pc'[Solo] = "redirect"
                       /\ \E r \in before : \E n \in after :
                             /\ after = {n}
                             /\ n.downloads = r.downloads + 1
                             /\ n.date = r.date
      /\ (pc[Solo] = "insert_downloads" /\ pc'[Solo] # pc[Solo])
            => /\ others(version_downloads') = others(version_downloads)
               /\ before = {}
               /\ \E n \in after : after = {n} /\ n.downloads = 1 /\ n.date = now

C19_SequentialDownloads == [](C19_State) /\ [][C19_Step]_vars

\* two downloads on day 1 and one on day 2 have been counted: one row with
\* counter 2 and one row with counter 1
C19_Witness ==
    \E r1, r2 \in Committed(version_downloads) :
        /\ r1.version_id = r2.version_id
        /\ date(r1.date) = 1 /\ r1.downloads = 2
        /\ date(r2.date) = 2 /\ r2.downloads = 1
        /\ Cardinality(version_downloads) = 2

\* C20: in every reachable state, concurrent downloads included, the
\* committed version_downloads rows hold at most one row per version and
\* day.
C20_OneRowPerDay ==
    \A r1, r2 \in Committed(version_downloads) :
        (r1.version_id = r2.version_id /\ date(r1.date) = date(r2.date))
           => r1.id = r2.id

\* C20, its second half: the counter of a committed version_downloads row
\* never decreases, and the row is never removed.
C20_CountersNeverDecrease ==
    [][\A r \in Committed(version_downloads) :
          \E n \in Committed(version_downloads') :
             n.id = r.id /\ n.date = r.date /\ n.downloads >= r.downloads]_vars

(***************************************************************************)
(* C21: in the download handler a failure of increment_download_counts     *)
(* (the crate or version is not found) is ignored by a read-only mirror,   *)
(* where the handler goes on to the redirect lookup and writes no counter; *)
(* in any other deployment the failure ends the request with that error    *)
(* and the request never reaches the redirect lookup.                      *)
(***************************************************************************)
Arrives(p, kind) == pc[p] = "idle" /\ pc'[p] # "idle" /\ req'[p].kind = kind

C21_Step ==
    \A p \in Workers :
        /\ (Arrives(p, "download") /\ VersionIds(req'[p].name, req'[p].vers, p) = {})
              => /\ version_downloads' = version_downloads
                 /\ IF config.mirror = "ReadOnlyMirror"
                    THEN pc'[p] = "redirect"
                    ELSE pc'[p] = "rollback" /\ res'[p] = "crate_or_version_not_found"
        /\ (req[p].kind = "download" /\ pc[p] = "rollback" /\ pc'[p] # "rollback")
              => pc'[p] = "idle"

C21_State ==
    \A p \in Workers :
        res[p] = "crate_or_version_not_found" => config.mirror # "ReadOnlyMirror"

C21_MirrorIgnoresCountFailure == [][C21_Step]_vars /\ []C21_State

\* a mirror is at the redirect lookup for a version it does not hold
C21_Witness ==
    /\ config.mirror = "ReadOnlyMirror"
    /\ \E p \in Workers :
        /\ pc[p] = "redirect" /\ req[p].kind = "download"
        /\ VersionIds(req[p].name, req[p].vers, p) = {}

\* a primary has turned down the download of a version it does not hold
C21_WitnessPrimary ==
    /\ config.mirror = "Primary"
    /\ \E p \in Workers :
        /\ pc[p] = "rollback" /\ res[p] = "crate_or_version_not_found"

(***************************************************************************)
(* C25: follow is idempotent.  A follow of a crate the user already        *)
(* follows succeeds and the pair keeps its one row; a pair never has more  *)
(* than one row; after a follow the pair has a row, after an unfollow it   *)
(* has none, whatever was there before; and `following` reports true       *)
(* exactly when the pair has a row.                                        *)
(***************************************************************************)
Followed(p) == FollowRows(req[p].user, loc[p].krate.id)

C25_State ==
    \A u \in Users, c \in {r.id : r \in crates} : Cardinality(FollowRows(u, c)) <= 1

C25_Step ==
    \A p \in Workers :
        (pc[p] = "statement" /\ pc'[p] # "statement") =>
            /\ req[p].kind = "follow"
                  => /\ pc'[p] = "commit" /\ res'[p] = "ok"
                     /\ Cardinality(Followed(p)') = 1
                     /\ Followed(p) # {} => follows' = follows
            /\ req[p].kind = "unfollow"
                  => pc'[p] = "commit" /\ res'[p] = "ok" /\ Followed(p)' = {}
            /\ req[p].kind = "following"
                  => /\ pc'[p] = "commit"
                     /\ res'[p] = (IF Followed(p) # {} THEN "following" ELSE "not_following")
                     /\ follows' = follows

C25_FollowIdempotent == []C25_State /\ [][C25_Step]_vars

\* a follow of a pair that was followed already has succeeded
C25_Witness ==
    \E p \in Workers :
        /\ pc[p] = "commit" /\ req[p].kind = "follow" /\ res[p] = "ok"
        /\ loc[p].n = 0
        /\ Cardinality(Followed(p)) = 1

(***************************************************************************)
(* C28: the stored display name of a crate, and its max_upload_size, never *)
(* change once the crate row exists: no step of a publish request or of    *)
(* create_or_update gives a crate id a row with another name or size,      *)
(* whatever casing the request supplies.                                   *)
(***************************************************************************)
C28_Step ==
    \A r \in crates, n \in crates' :
        r.id = n.id => n.name = r.name /\ n.max_upload_size = r.max_upload_size

C28_NameNeverChanges == [][C28_Step]_vars

\* a call of create_or_update that spells the name differently has updated
\* the crate's row
C28_Witness ==
    \E p \in Workers, r \in crates :
        /\ req[p].kind = "create_or_update" /\ res[p] = "updated"
        /\ r.xmin = p /\ r.name # req[p].name
        /\ \E o \in crates : o.id = r.id /\ o.xmax = p

\* a publish request that spells the name differently has updated the
\* crate's row
C28_WitnessPublish ==
    \E p \in Workers, r \in crates :
        /\ req[p].kind = "publish" /\ r.xmin = p /\ r.name # req[p].name
        /\ \E o \in crates : o.id = r.id /\ o.xmax = p

(***************************************************************************)
(* C26: a publish request that is rejected before the upload (for its      *)
(* rights, its name, its size, a duplicate version, an unresolved          *)
(* dependency) leaves the database as it was: the committed rows change    *)
(* only when a request that is kept ends, a rejected request ends by       *)
(* rollback, and when it has ended no table holds a row it wrote or        *)
(* replaced; so the metadata the upsert wrote before the rights check is   *)
(* gone and the crate's previous metadata stands.                          *)
(***************************************************************************)
StripTx(r) == [f \in DOMAIN r \ {"xmin", "xmax"} |-> r[f]]
\* the committed content of a table
Snapshot(t) == {StripTx(r) : r \in Committed(t)}
\* the committed content of the tables a publish request writes
Database ==
    <<Snapshot(crates), Snapshot(crate_owners), Snapshot(versions),
      Snapshot(dependencies), Snapshot(crates_keywords), Snapshot(crates_categories)>>
TouchedBy(p) ==
    {r \in crates \cup crate_owners \cup versions \cup dependencies
            \cup crates_keywords \cup crates_categories : r.xmin = p \/ r.xmax = p}
Rejections ==
    {"not_authorized", "previously_named", "max_upload_size", "already_uploaded",
     "dependency_not_found"}

C26_State ==
    \A p \in Workers :
        /\ res[p] \in Rejections => pc[p] = "rollback"
        /\ pc[p] = "idle" => TouchedBy(p) = {}

C26_Step ==
    /\ (\A q \in Workers : ~(pc[q] = "commit" /\ pc'[q] = "idle"))
          => Database' = Database
    /\ \A p \in Workers :
          (pc[p] = "rollback" /\ pc'[p] # "rollback")
             => /\ pc'[p] = "idle"
                /\ TouchedBy(p)' = {}
                /\ UNCHANGED <<storage, index>>

C26_RejectedPublishWritesNothing == []C26_State /\ [][C26_Step]_vars

\* a request without rights has been turned down at the gate after it
\* rewrote the metadata of the crate
C26_Witness ==
    \E p \in Workers, r \in crates, o \in crates :
        /\ pc[p] = "rollback" /\ res[p] = "not_authorized"
        /\ r.xmin = p /\ o.xmax = p /\ o.id = r.id /\ o.meta # r.meta

(***************************************************************************)
(* C27: the artifact is uploaded only by a request whose database steps    *)
(* have all succeeded (upsert, gate, name and size checks, add_version,    *)
(* dependencies, keyword and category updates), the index is written only  *)
(* by a request whose upload has returned, and a request that fails in a   *)
(* database step has neither stored an artifact nor written the index.     *)
(***************************************************************************)
ValuesOf(t, col, p) == {r[col] : r \in {x \in Visible(t, p) : x.crate_id = loc[p].krate.id}}

DatabaseStepsDone(p) ==
    /\ \E c \in Visible(crates, p) : CrateOf(c) = loc[p].krate
    /\ loc[p].entitled
    /\ loc[p].krate.name = req[p].name
    /\ \E v \in InFlightBy(versions, p) :
          v.crate_id = loc[p].krate.id /\ v.num = req[p].vers
    /\ req[p].missing_dep = <<>>
    /\ ValuesOf(crates_keywords, "keyword", p) = Keywords
    /\ ValuesOf(crates_categories, "slug", p) = Categories

C27_State ==
    \A p \in Workers :
        /\ pc[p] \in {"upload", "add_crate"} => DatabaseStepsDone(p)
        /\ pc[p] = "add_crate" => loc[p].bomb
        /\ pc[p] \notin {"add_crate"} => ~loc[p].bomb

C27_Step ==
    /\ ~(storage' \subseteq storage)
          => \E p \in Workers :
                /\ pc[p] = "upload" /\ pc'[p] = "add_crate"
                /\ storage' = storage \cup {<<req[p].name, req[p].vers>>}
    /\ index' # index => \E p \in Workers : pc[p] = "add_crate" /\ loc[p].bomb
    /\ \A p \in Workers :
          (pc'[p] = "rollback" /\ pc[p] # "rollback" /\ req'[p].kind = "publish")
             => /\ pc[p] \notin {"upload", "add_crate"}
                /\ UNCHANGED <<storage, index>>

C27_SideEffectsLast == []C27_State /\ [][C27_Step]_vars

\* a request whose keyword update failed has ended, and nothing of its
\* version is stored or indexed
C27_Witness ==
    \E p \in Workers :
        /\ pc[p] = "rollback" /\ res[p] = "update_failed"
        /\ <<req[p].name, req[p].vers>> \notin storage
        /\ index[<<req[p].name, req[p].vers>>] = 0

(***************************************************************************)
(* C30: every crate that exists has at least one direct user owner that    *)
(* is not deleted, in every reachable state: each committed crate row has  *)
(* a committed crate_owners row of kind user with deleted = FALSE.         *)
(***************************************************************************)
LiveUserOwners(crate_id) ==
    {r \in Committed(crate_owners) :
        r.crate_id = crate_id /\ r.owner_kind = OwnerKindUser /\ ~r.deleted}

C30_EveryCrateHasUserOwner ==
    \A c \in Committed(crates) : LiveUserOwners(c.id) # {}

(***************************************************************************)
(* The listing: what a response is measured against                        *)
(***************************************************************************)
Listed(p) == pc[p] = "commit" /\ req[p].kind = "index"
\* the names on the page of a response
NamesOf(r) == {r.crates[i].name : i \in DOMAIN r.crates}
\* the size of the page that `count` matching rows leave at a page
PageSize(count, page) ==
    IF page.offset >= count THEN 0
    ELSE IF page.offset + page.limit <= count THEN page.limit
    ELSE count - page.offset
\* the response gives a page of the rows `rows`
PageOf(r, rows, page) ==
    /\ NamesOf(r) \subseteq {c.name : c \in rows}
    /\ Len(r.crates) = PageSize(Cardinality(rows), page)
    /\ \A i, j \in DOMAIN r.crates : i # j => r.crates[i].name # r.crates[j].name
\* the mode the parameters that are present select, by precedence
ModeByPresence(params) ==
    IF params.q.some THEN "q"
    ELSE IF params.letter.some THEN "letter"
    ELSE IF params.keyword.some THEN "keyword"
    ELSE IF params.category.some THEN "category"
    ELSE IF params.user_id.some THEN "user_id"
    ELSE IF params.following.some THEN "following"
    ELSE "none"
\* the crates a mode selects; a user_id that is no number names no owner
Selected(mode, params, user) ==
    LET all == Committed(crates) IN
    CASE mode = "q" ->
           {c \in all : \E i \in DOMAIN textsearchable_index_col(c) :
               textsearchable_index_col(c)[i] = lower(params.q.val)}
      [] mode = "letter" ->
           {c \in all : canon_crate_name(c.name)[1] = to_lowercase(params.letter.val[1])}
      [] mode = "keyword" ->
           {c \in all : \E k \in Committed(crates_keywords) :
               k.crate_id = c.id /\ lower(k.keyword) = lower(params.keyword.val)}
      [] mode = "category" ->
           {c \in all : \E k \in Committed(crates_categories) :
               /\ k.crate_id = c.id
               /\ \/ k.slug = params.category.val
                  \/ /\ Len(k.slug) >= Len(params.category.val) + 2
                     /\ SubSeq(k.slug, 1, Len(params.category.val) + 2)
                          = params.category.val \o <<":", ":">>}
      [] mode = "user_id" ->
           {c \in all : \E o \in Committed(crate_owners) :
               /\ o.crate_id = c.id /\ o.owner_kind = OwnerKindUser
               /\ parse_i32(params.user_id.val) = Some(o.owner_id)}
      [] mode = "following" ->
           {c \in all : \E f \in Committed(follows) :
               f.crate_id = c.id /\ f.user_id = user}
      [] OTHER -> all
\* the mode that counts a user_id only if it is a number
ModeOfUsable(params) ==
    IF params.user_id.some /\ ~parse_i32(params.user_id.val).some
    THEN ModeByPresence([params EXCEPT !.user_id = None])
    ELSE ModeByPresence(params)

(***************************************************************************)
(* C22 as stated: the listing applies the one filter of the parameter of   *)
(* highest precedence q > letter > keyword > category > user_id >          *)
(* following > none among those present; the page answered is a page of    *)
(* the crates that filter selects.                                         *)
(***************************************************************************)
C22_FilterByPresence ==
    \A p \in Workers :
        Listed(p) =>
            PageOf(res[p],
                   Selected(ModeByPresence(req[p].params), req[p].params, req[p].user),
                   req[p].page)

(***************************************************************************)
(* C22 amended: the same, where a user_id parameter that does not parse    *)
(* as an integer counts as absent.                                         *)
(***************************************************************************)
C22_FilterByUsable ==
    \A p \in Workers :
        Listed(p) =>
            PageOf(res[p],
                   Selected(ModeOfUsable(req[p].params), req[p].params, req[p].user),
                   req[p].page)

\* a request with a query, a letter, a keyword, a category, a user_id and
\* `following` has been answered with the one crate the query selects on
\* its second page
C22_Witness ==
    \E p \in Workers :
        /\ Listed(p)
        /\ \A f \in {"q", "letter", "keyword", "category", "user_id", "following"} :
              req[p].params[f].some
        /\ req[p].params.q.val = Foo_l
        /\ req[p].page = [offset |-> 1, limit |-> 1]
        /\ Len(res[p].crates) = 1

\* a request whose user_id is no number has been answered with the crates
\* its user follows
C22_WitnessUnusable ==
    \E p \in Workers :
        /\ Listed(p)
        /\ req[p].params.user_id = Some("x") /\ req[p].params.following.some
        /\ ModeOfUsable(req[p].params) = "following"
        /\ NamesOf(res[p]) = {Fb_d}

(***************************************************************************)
(* C23: in the answer to a listing request with a query q, whatever the    *)
(* sort, a crate whose stored name equals q and that matches the query     *)
(* comes before every other crate: it opens the first page and is on no    *)
(* later page, whatever the download counts and ranks of the others.       *)
(***************************************************************************)
ExactMatches(p) ==
    {c \in Selected("q", req[p].params, req[p].user) : c.name = req[p].params.q.val}

C23_ExactMatchFirst ==
    \A p \in Workers :
        (Listed(p) /\ req[p].params.q.some) =>
            \A c \in ExactMatches(p) :
                IF req[p].page.offset = 0
                THEN res[p].crates[1].name = c.name
                ELSE c.name \notin NamesOf(res[p])

\* sorted by downloads, foo with no download opens the answer to the query
\* foo, before a crate that has downloads
C23_Witness ==
    \E p \in Workers :
        /\ Listed(p)
        /\ req[p].params.q = Some(Foo_l) /\ req[p].params.sort = Some("downloads")
        /\ req[p].page = [offset |-> 0, limit |-> 2]
        /\ Len(res[p].crates) = 2
        /\ res[p].crates[1].name = Foo_l
        /\ \E a, b \in Committed(crates) :
              /\ a.name = Foo_l /\ b.name = res[p].crates[2].name
              /\ a.downloads < b.downloads

(***************************************************************************)
(* C24: the max_version every endpoint reports for a crate is the highest  *)
(* semantic version among the crate's versions that are not yanked, so a   *)
(* yanked version is never reported while another one exists.              *)
(***************************************************************************)
LiveVersions(c) ==
    {semver_parse(v.num) : v \in {x \in Committed(versions) : x.crate_id = c.id /\ ~x.yanked}}

C24_MaxVersionSkipsYanked ==
    \A p \in Workers :
        (pc[p] = "commit" /\ req[p].kind \in {"index", "show"}) =>
            \A i \in DOMAIN res[p].crates, c \in Committed(crates) :
                (c.name = res[p].crates[i].name /\ LiveVersions(c) # {})
                   => /\ semver_parse(res[p].crates[i].max_version) \in LiveVersions(c)
                      /\ \A w \in LiveVersions(c) :
                            ~SemVerLess(semver_parse(res[p].crates[i].max_version), w)

\* what `show` reports is such a version
C24_ShowSkipsYanked ==
    \A p \in Workers :
        (pc[p] = "commit" /\ req[p].kind = "show") =>
            \A c \in Committed(crates) :
                (c.name = res[p].crates[1].name /\ LiveVersions(c) # {})
                   => /\ semver_parse(res[p].crates[1].max_version) \in LiveVersions(c)
                      /\ \A w \in LiveVersions(c) :
                            ~SemVerLess(semver_parse(res[p].crates[1].max_version), w)

(***************************************************************************)
(* C29: the total of a listing answer is the number of crates the applied  *)
(* filter selects, whatever page is asked for, a page past the last        *)
(* selected crate included.                                                *)
(***************************************************************************)
C29_TotalIsMatchCount ==
    \A p \in Workers :
        Listed(p) =>
            res[p].total =
                Cardinality(Selected(ModeOfUsable(req[p].params), req[p].params,
                                     req[p].user))

\* the total of an answer that holds a crate is the number selected, and
\* the total of an empty answer is 0
C29_TotalOfWindow ==
    \A p \in Workers :
        Listed(p) =>
            res[p].total =
                (IF res[p].crates = <<>> THEN 0
                 ELSE Cardinality(Selected(ModeOfUsable(req[p].params), req[p].params,
                                           req[p].user)))

(***************************************************************************)
(* C31: the assertion amt <= 1 of Crate::owner_add never fails: whenever a *)
(* request is about to run the un-delete UPDATE, at most one crate_owners  *)
(* row matches its (crate, owner, owner-kind) triple, and no request ever  *)
(* ends in the assertion's panic; this with two concurrent adds of one     *)
(* login and with an add request that names a login twice.                 *)
(***************************************************************************)
C31_AmtAtMostOne ==
    \A p \in Workers :
        /\ res[p] # "panic_amt"
        /\ pc[p] = "owner_add_update"
              => Cardinality(OwnerRows(loc[p].krate, loc[p].owner, p)) <= 1

\* an add request is at the UPDATE for its second login, which is the login
\* whose row it has inserted itself: one row matches
C31_Witness ==
    \E p \in Workers :
        /\ pc[p] = "owner_add_update" /\ loc[p].n = 1
        /\ \E r \in OwnerRows(loc[p].krate, loc[p].owner, p) : r.xmin = p
        /\ Cardinality({x \in crate_owners :
               OwnerKey(x) = <<loc[p].krate.id, loc[p].owner.id, loc[p].owner.kind>>}) = 1

\* of two concurrent adds of one login, the second has ended in the unique
\* violation of its INSERT, the first one's row being committed
C31_WitnessConcurrent ==
    \E q \in Workers :
        /\ pc[q] = "rollback" /\ res[q] = "crate_owners_unique_violation"
        /\ \E r \in Committed(crate_owners) : r.owner_id = 2 /\ ~r.deleted

(***************************************************************************)
(* C32: a listing answer for a user_id holds only crates of which that     *)
(* user is a current owner: a crate whose owner row of the user is         *)
(* soft-deleted (deleted = TRUE, as owner_remove leaves it) is not in the  *)
(* answer.                                                                 *)
(***************************************************************************)
C32_ListsCurrentOwnersOnly ==
    \A p \in Workers :
        (Listed(p) /\ FilterMode(req[p].params) = "user_id") =>
            \A i \in DOMAIN res[p].crates :
                \E c \in Committed(crates), o \in Committed(crate_owners) :
                    /\ c.name = res[p].crates[i].name
                    /\ o.crate_id = c.id
                    /\ o.owner_kind = OwnerKindUser
                    /\ Some(o.owner_id) = parse_i32(req[p].params.user_id.val)
                    /\ ~o.deleted

\* what holds instead: the answer holds the crates that have an owner row
\* of the user, deleted or not
C32_ListsEveryOwnerRow ==
    \A p \in Workers :
        (Listed(p) /\ FilterMode(req[p].params) = "user_id") =>
            NamesOf(res[p]) =
                {c.name : c \in {x \in Committed(crates) :
                    \E o \in Committed(crate_owners) :
                        /\ o.crate_id = x.id /\ o.owner_kind = OwnerKindUser
                        /\ Some(o.owner_id) = parse_i32(req[p].params.user_id.val)}}

(***************************************************************************)
(* C33: for one version and one day the counters of the version_downloads  *)
(* rows add up to the number of increment_download_counts calls that       *)
(* returned success, whatever the interleaving: every call that returns    *)
(* success raises the sum of the counters of its version and day by        *)
(* exactly one, as the calling transaction sees the rows.                  *)
(***************************************************************************)
RECURSIVE CounterSum(_)
CounterSum(rows) ==
    IF rows = {} THEN 0
    ELSE LET r == CHOOSE x \in rows : TRUE IN r.downloads + CounterSum(rows \ {r})

Counted(t, p) ==
    CounterSum(RowsOfDay(Visible(t, p), loc[p].version_id, date(now)))

C33_EachCallCountsOnce ==
    [][\A p \in Workers :
          (pc[p] \in {"update_downloads", "insert_downloads"} /\ pc'[p] = "redirect")
             => Counted(version_downloads', p) = Counted(version_downloads, p) + 1]_vars

====
